---- MODULE Spec2Model ----
(***************************************************************************)
(* Model of the tool-calling orchestration of prab-cli:                    *)
(*   SafetyChecker   (src/src/lib/safety.ts)                               *)
(*   ToolExecutor    (src/src/lib/tools/executor.ts)                       *)
(*   ChatHandler     (src/src/lib/chat-handler.ts)                         *)
(* Strings are TLA+ strings; Len, \o and SubSeq are used on them the way   *)
(* the source uses length, + and substring.                                *)
(***************************************************************************)
EXTENDS Integers, Sequences, FiniteSets, TLC

(***************************************************************************)
(* Strings                                                                 *)
(***************************************************************************)

Char(s, i) == SubSeq(s, i, i)

\* String.prototype.includes
includes(s, pat) ==
  \E i \in 1..(Len(s) - Len(pat) + 1) : SubSeq(s, i, i + Len(pat) - 1) = pat

LowerChar(c) ==
  CASE c = "A" -> "a" [] c = "B" -> "b" [] c = "C" -> "c" [] c = "D" -> "d"
    [] c = "E" -> "e" [] c = "F" -> "f" [] c = "G" -> "g" [] c = "H" -> "h"
    [] c = "I" -> "i" [] c = "J" -> "j" [] c = "K" -> "k" [] c = "L" -> "l"
    [] c = "M" -> "m" [] c = "N" -> "n" [] c = "O" -> "o" [] c = "P" -> "p"
    [] c = "Q" -> "q" [] c = "R" -> "r" [] c = "S" -> "s" [] c = "T" -> "t"
    [] c = "U" -> "u" [] c = "V" -> "v" [] c = "W" -> "w" [] c = "X" -> "x"
    [] c = "Y" -> "y" [] c = "Z" -> "z" [] OTHER -> c

RECURSIVE toLowerCase(_)
toLowerCase(s) ==
  IF Len(s) = 0 THEN ""
  ELSE LowerChar(Char(s, 1)) \o toLowerCase(SubSeq(s, 2, Len(s)))

(***************************************************************************)
(* Regular expressions of the source, as sequences of pattern tokens:      *)
(*   lit  a literal text,  ws+  \s+,  ws*  \s*,  any*  .*                  *)
(***************************************************************************)

Lit(c)  == [k |-> "lit",  c |-> c]
WsPlus  == [k |-> "ws+",  c |-> ""]
WsStar  == [k |-> "ws*",  c |-> ""]
AnyStar == [k |-> "any*", c |-> ""]

IsWs(c) == c \in {" ", "\t", "\n"}

RECURSIVE MatchFrom(_, _, _, _)
MatchFrom(pat, pi, s, si) ==
  IF pi > Len(pat) THEN TRUE
  ELSE CASE pat[pi].k = "lit" ->
              /\ si + Len(pat[pi].c) - 1 <= Len(s)
              /\ SubSeq(s, si, si + Len(pat[pi].c) - 1) = pat[pi].c
              /\ MatchFrom(pat, pi + 1, s, si + Len(pat[pi].c))
         [] pat[pi].k = "ws+" ->
              /\ si <= Len(s)
              /\ IsWs(Char(s, si))
              /\ \/ MatchFrom(pat, pi + 1, s, si + 1)
                 \/ MatchFrom(pat, pi, s, si + 1)
         [] pat[pi].k = "ws*" ->
              \/ MatchFrom(pat, pi + 1, s, si)
              \/ /\ si <= Len(s)
                 /\ IsWs(Char(s, si))
                 /\ MatchFrom(pat, pi, s, si + 1)
         [] OTHER ->
              \/ MatchFrom(pat, pi + 1, s, si)
              \/ /\ si <= Len(s)
                 /\ Char(s, si) # "\n"
                 /\ MatchFrom(pat, pi, s, si + 1)

\* RegExp.prototype.test, unanchored; ci is the /i flag
test(pat, ci, s) ==
  LET t == IF ci THEN toLowerCase(s) ELSE s
  IN  \E i \in 1..(Len(t) + 1) : MatchFrom(pat, 1, t, i)

(***************************************************************************)
(* Values and argument maps.  An argument map is the sequence of its       *)
(* <<key, value>> entries in insertion order, keys distinct.               *)
(***************************************************************************)

Str(s)  == [t |-> "str",  s |-> s,  b |-> FALSE, n |-> 0, a |-> <<>>]
Bool(b) == [t |-> "bool", s |-> "", b |-> b,     n |-> 0, a |-> <<>>]
Num(n)  == [t |-> "num",  s |-> "", b |-> FALSE, n |-> n, a |-> <<>>]
\* an array of strings
Arr(a)  == [t |-> "arr",  s |-> "", b |-> FALSE, n |-> 0, a |-> a]
Undef   == [t |-> "undef", s |-> "", b |-> FALSE, n |-> 0, a |-> <<>>]

HasKey(args, key) == \E i \in 1..Len(args) : args[i][1] = key

\* property read: params.key
Get(args, key) ==
  IF HasKey(args, key)
  THEN args[CHOOSE i \in 1..Len(args) : args[i][1] = key][2]
  ELSE Undef

\* JavaScript truthiness
Truthy(v) ==
  CASE v.t = "bool" -> v.b
    [] v.t = "str"  -> v.s # ""
    [] v.t = "num"  -> v.n # 0
    [] v.t = "arr"  -> TRUE
    [] OTHER        -> FALSE

\* JavaScript ToString, as applied by RegExp.test to its argument
ToStr(v) ==
  CASE v.t = "bool" -> (IF v.b THEN "true" ELSE "false")
    [] v.t = "str"  -> v.s
    [] v.t = "num"  -> ToString(v.n)
    [] OTHER        -> "undefined"

EscChar(c) == IF c = "\"" THEN "\\\"" ELSE IF c = "\\" THEN "\\\\" ELSE c

RECURSIVE Escape(_)
Escape(s) ==
  IF Len(s) = 0 THEN "" ELSE EscChar(Char(s, 1)) \o Escape(SubSeq(s, 2, Len(s)))

RECURSIVE JsonItems(_)
JsonItems(a) ==
  IF Len(a) = 0 THEN ""
  ELSE "\"" \o Escape(a[1]) \o "\"" \o (IF Len(a) > 1 THEN "," ELSE "")
       \o JsonItems(Tail(a))

JsonValue(v) ==
  CASE v.t = "bool" -> (IF v.b THEN "true" ELSE "false")
    [] v.t = "num"  -> ToString(v.n)
    [] v.t = "arr"  -> "[" \o JsonItems(v.a) \o "]"
    [] OTHER        -> "\"" \o Escape(v.s) \o "\""

RECURSIVE JsonEntries(_)
JsonEntries(args) ==
  IF Len(args) = 0 THEN ""
  ELSE "\"" \o Escape(args[1][1]) \o "\":" \o JsonValue(args[1][2])
       \o (IF Len(args) > 1 THEN "," ELSE "")
       \o JsonEntries(Tail(args))

\* JSON.stringify of an argument map: entries in insertion order
JSONstringify(args) == "{" \o JsonEntries(args) \o "}"

(***************************************************************************)
(* Tools                                                                   *)
(***************************************************************************)

Tool(n, rc, d) == [name |-> n, requiresConfirmation |-> rc, destructive |-> d]

ReadFileTool  == Tool("read_file",    FALSE, FALSE)
WriteFileTool == Tool("write_file",   TRUE,  TRUE)
EditFileTool  == Tool("edit_file",    TRUE,  TRUE)
GlobTool      == Tool("glob",         FALSE, FALSE)
GrepTool      == Tool("grep",         FALSE, FALSE)
BashTool      == Tool("bash",         TRUE,  TRUE)
GitStatusTool == Tool("git_status",   FALSE, FALSE)
GitAddTool    == Tool("git_add",      FALSE, FALSE)
GitDiffTool   == Tool("git_diff",     FALSE, FALSE)
GitLogTool    == Tool("git_log",      FALSE, FALSE)
GitCommitTool == Tool("git_commit",   TRUE,  TRUE)
GitBranchTool == Tool("git_branch",   TRUE,  TRUE)
GitPushTool   == Tool("git_push",     TRUE,  TRUE)
TodoTool      == Tool("manage_todos", FALSE, FALSE)

\* the tools the CLI registers at start-up
Catalog ==
  {ReadFileTool, WriteFileTool, EditFileTool, GlobTool, GrepTool, BashTool,
   GitStatusTool, GitAddTool, GitDiffTool, GitLogTool, GitCommitTool,
   GitBranchTool, GitPushTool, TodoTool}

\* Tool is an abstract class: a subclass may set the two flags freely
CustomTools ==
  {Tool("deploy", FALSE, TRUE), Tool("notify", TRUE, FALSE),
   Tool("probe", FALSE, FALSE), Tool("wipe", TRUE, TRUE)}

Preferences == [autoConfirm : BOOLEAN, safeMode : BOOLEAN]

DefaultPreferences == [autoConfirm |-> FALSE, safeMode |-> TRUE]

(***************************************************************************)
(* SafetyChecker                                                           *)
(***************************************************************************)

dangerous ==
  << [pat |-> <<Lit("rm"), WsPlus, Lit("-rf")>>,        ci |-> FALSE],
     [pat |-> <<Lit("rm"), WsPlus, AnyStar, Lit("/*")>>, ci |-> FALSE],
     [pat |-> <<Lit(">"), WsStar, Lit("/dev")>>,         ci |-> FALSE],
     [pat |-> <<Lit("dd"), WsPlus, Lit("if=")>>,         ci |-> FALSE],
     [pat |-> <<Lit("mkfs")>>,                           ci |-> FALSE],
     [pat |-> <<Lit("format")>>,                         ci |-> TRUE] >>

isExtremelyDangerousNoBash(tool, params) ==
  IF tool.name = "git_push" /\ Truthy(Get(params, "force")) THEN TRUE
  ELSE IF tool.name = "git_branch" /\ Get(params, "action") = Str("delete") THEN TRUE
  ELSE FALSE

isExtremelyDangerous(tool, params) ==
  IF tool.name = "git_push" /\ Truthy(Get(params, "force")) THEN TRUE
  ELSE IF tool.name = "git_branch" /\ Get(params, "action") = Str("delete") THEN TRUE
  ELSE IF tool.name = "bash"
       THEN \E i \in 1..Len(dangerous) :
              test(dangerous[i].pat, dangerous[i].ci, ToStr(Get(params, "command")))
  ELSE FALSE

\* safe mode confirming every tool
shouldConfirmSafeModeAll(tool, params, p) ==
  IF p.autoConfirm /\ ~p.safeMode THEN isExtremelyDangerous(tool, params)
  ELSE IF p.safeMode THEN TRUE
  ELSE tool.requiresConfirmation

\* auto-confirm taking the first branch whatever safe mode says
shouldConfirmAutoConfirmWins(tool, params, p) ==
  IF p.autoConfirm THEN isExtremelyDangerous(tool, params)
  ELSE IF p.safeMode /\ tool.destructive THEN TRUE
  ELSE tool.requiresConfirmation

shouldConfirmNoSafeMode(tool, params, p) ==
  IF p.autoConfirm /\ ~p.safeMode THEN isExtremelyDangerous(tool, params)
  ELSE tool.requiresConfirmation

shouldConfirm(tool, params, p) ==
  IF p.autoConfirm /\ ~p.safeMode THEN isExtremelyDangerous(tool, params)
  ELSE IF p.safeMode /\ tool.destructive THEN TRUE
  ELSE tool.requiresConfirmation

(***************************************************************************)
(* State                                                                   *)
(***************************************************************************)

VARIABLES
  scTool, scParams, scPrefs, scResult,   \* one shouldConfirm evaluation
  tools,              \* ToolRegistry.tools, in insertion order
  prefs,              \* the preferences of the configuration file
  sessionOverrides,   \* ToolExecutor.sessionOverrides: the keys mapped to true
  epc,                \* where the executor is: idle, next, prompt, execute
  batch,              \* the toolCalls of the running executeMultiple
  results,            \* the results of executeMultiple so far
  cur,                \* what the running executeSingle has done so far
  remembered,         \* the calls accepted with "remember" in this process
  rounds,             \* executeMultiple invocations made by a direct caller
  messages,           \* ChatHandler.messages
  hpc,                \* where processUserInput is: none, idle, streaming, tools
  input,              \* the input of the running turn
  iterationCount,     \* the loop counter of the running turn
  toolCalls,          \* the tool calls of the running iteration, as streamed
  usage,              \* ChatHandler.usage
  ret,                \* what the last call on the handler returned
  thrown,             \* the exception that call caught, and its origin
  turnBase,           \* the history when the running turn began
  requests,           \* streamChat calls issued in the running turn
  sizes,              \* the tool-call count of each response of the turn
  warned,             \* the turn emitted the maximum-iteration warning
  turns,              \* processUserInput calls so far
  stream,             \* the chunks the provider has still to deliver
  acc,                \* fullResponse and toolCalls of the running iteration
  modelId,            \* GroqProvider.modelId: the model the provider asks
  sent,               \* the request being served: its model and messages
  budget,             \* departures from the default environment still allowed
  kcA, kcB, kcKeys,   \* two calls and their confirmation-memory keys
  registered,         \* the tools handed to ToolRegistry.register, in order
  atInput,            \* the input of one attachMentionedFiles call
  atTree,             \* the file tree it scans: paths with their contents
  atResult,           \* what it returned
  todos,              \* the todo list of the session data
  tdCall,             \* the last manage_todos call: its action and items
  tdResult,           \* what that call returned
  edFile,             \* the file an edit_file call names: present, content
  edParams,           \* the params of that call
  edResult,           \* what the call returned
  activeModel,        \* the active model of the configuration file
  startModel,         \* modelConfig.modelId, read once at start-up
  prModelId,          \* GroqProvider.modelId of the interactive session
  prModel,            \* the model of the ChatGroq client; "" when there is none
  prApiKey,           \* GroqProvider.apiKey
  cliSteps,           \* commands handled so far
  cliUsed             \* the model the last request went to

safetyVars == <<scTool, scParams, scPrefs, scResult>>
execVars   == <<tools, prefs, sessionOverrides, epc, batch, results, cur,
               remembered, rounds>>
handlerVars == <<messages, hpc, input, iterationCount, toolCalls, usage, ret,
                 thrown, turnBase, requests, sizes, warned, turns, stream, acc,
                 modelId, sent>>
keyVars    == <<kcA, kcB, kcKeys>>
regVars    == <<registered>>
attachVars == <<atInput, atTree, atResult>>
todoVars   == <<todos, tdCall, tdResult>>
editVars   == <<edFile, edParams, edResult>>
cliVars    == <<activeModel, startModel, prModelId, prModel, prApiKey,
                cliSteps, cliUsed>>
sideVars   == <<todoVars, editVars, cliVars>>
vars       == <<safetyVars, execVars, handlerVars, budget, keyVars, regVars,
                attachVars, sideVars>>

(***************************************************************************)
(* One evaluation of shouldConfirm on drawn inputs                         *)
(***************************************************************************)

BashCommands ==
  {"ls", "rm -rf /", "rm  -rf build", "rm -r x", "rm a/*", "echo x > /dev/null",
   "echo x >/dev/sda", "dd if=a of=b", "mkfs.ext4 d", "FORMAT c:", "git status"}

SafetyParams ==
  {<<>>}
  \cup {<< <<"command", Str(c)>> >> : c \in BashCommands}
  \cup {<< <<"force", Bool(b)>>, <<"branch", Str("main")>> >> : b \in BOOLEAN}
  \cup {<< <<"branch", Str("dev")>> >>}
  \cup {<< <<"action", Str(a)>>, <<"name", Str("dev")>> >> : a \in {"delete", "list", "create"}}
  \cup {<< <<"file_path", Str("a.txt")>>, <<"content", Str("x")>> >>}

NoResult == [done |-> FALSE, value |-> FALSE]

SafetyInit ==
  /\ scTool \in Catalog \cup CustomTools
  /\ scParams \in SafetyParams
  /\ scPrefs \in Preferences
  /\ scResult = NoResult

ShouldConfirmCall ==
  /\ ~scResult.done
  /\ scResult' = [done |-> TRUE, value |-> shouldConfirm(scTool, scParams, scPrefs)]
  /\ UNCHANGED <<scTool, scParams, scPrefs>>

(***************************************************************************)
(* ToolRegistry and ToolExecutor                                           *)
(***************************************************************************)

has(reg, name) == \E i \in 1..Len(reg) : reg[i].name = name

\* ToolRegistry.get; callers test has() for the absent case
get(reg, name) == reg[CHOOSE i \in 1..Len(reg) : reg[i].name = name]

Result(s, o, e, he) == [success |-> s, output |-> o, error |-> e, hasError |-> he]

errorKeepsOutput(msg) == Result(FALSE, msg, msg, TRUE)

\* Tool.success and Tool.error
success(output) == Result(TRUE, output, "", FALSE)
error(msg)      == Result(FALSE, "", msg, TRUE)

NotFoundUnnamed(name) == Result(FALSE, "", "Tool not found", TRUE)

NotFound(name) == Result(FALSE, "", "Tool '" \o name \o "' not found", TRUE)
Cancelled      == Result(FALSE, "", "Operation cancelled by user", TRUE)
Caught(msg)    ==
  Result(FALSE, "", IF msg = "" THEN "Unknown error occurred" ELSE msg, TRUE)

\* what a tool's execute can return
ToolOutcomes == {success("done"), error("failed")}

\* the underlying operation an execute has invoked: a spawned process
\* (child_process exec) or a push (simple-git)
NoEffect == [op |-> "none", target |-> "", options |-> <<>>, timeout |-> 0]
Exec(command, timeout) ==
  [op |-> "exec", target |-> command, options |-> <<>>, timeout |-> timeout]
Push(branch, options) ==
  [op |-> "push", target |-> branch, options |-> options, timeout |-> 0]
\* git.add(files) and git.commit(message)
Staged(files) ==
  [op |-> "add", target |-> "", options |-> files, timeout |-> 0]
Commit(message, files) ==
  [op |-> "commit", target |-> message, options |-> files, timeout |-> 0]

\* BashTool.dangerousPatterns; the last regular expression of the source,
\* /:(){ :|:& };:/, is the alternation of ":" "" "{ :" and ":& };:"
dangerousPatterns ==
  << <<Lit("rm"), WsPlus, Lit("-rf"), WsPlus, Lit("/")>>,
     <<Lit("mkfs")>>,
     <<Lit("dd"), WsPlus, Lit("if=")>>,
     <<Lit(">"), WsStar, Lit("/dev/sd")>>,
     <<Lit("chmod"), WsPlus, Lit("-R"), WsPlus, Lit("777")>>,
     <<Lit("chown"), WsPlus, Lit("-R")>>,
     <<Lit(":{ :")>>,
     <<Lit(":& };:")>> >>

\* BashTool.isDangerous
isDangerous(command) ==
  \E i \in 1..Len(dangerousPatterns) : test(dangerousPatterns[i], FALSE, command)

\* the default and the hard maximum of the timeout, in milliseconds
DefaultTimeout == 120000
MaxTimeout     == 600000

\* the timeout taken without the test against the maximum
timeoutOfUncapped(params) ==
  LET t == Get(params, "timeout")
  IN  IF Truthy(t) THEN t.n ELSE DefaultTimeout

\* params.timeout && params.timeout <= 600000 ? params.timeout : 120000,
\* for a timeout that is a number or absent
timeoutOf(params) ==
  LET t == Get(params, "timeout")
  IN  IF Truthy(t) /\ t.n <= MaxTimeout THEN t.n ELSE DefaultTimeout

\* params.timeout || 120000, the number the timeout message prints
printedTimeout(params) ==
  LET t == Get(params, "timeout") IN IF Truthy(t) THEN t.n ELSE DefaultTimeout

\* child_process.exec rejects a timeout that is not an unsigned integer
\* with ERR_OUT_OF_RANGE before it spawns anything
OutOfRange(command, timeout) ==
  error("Command failed: " \o command \o "\nExit code: ERR_OUT_OF_RANGE\nOutput:\n"
        \o "The value of \"timeout\" is out of range. It must be an unsigned "
        \o "integer. Received " \o ToString(timeout))

\* what the spawned process can do: succeed with output, fail, or be killed
\* when the timeout expires
bashRuns(command, params) ==
  { success("Command executed: " \o command \o "\n\nOutput:\nok"),
    error("Command failed: " \o command \o "\nExit code: 1\nOutput:\nboom"),
    error("Command timed out after " \o ToString(printedTimeout(params))
          \o "ms: " \o command) }

\* execPromise(command, {timeout, ...}) and the catch around it
execPromise(command, timeout, params) ==
  IF timeout < 0
  THEN {[result |-> OutOfRange(command, timeout), effect |-> NoEffect]}
  ELSE {[result |-> r, effect |-> Exec(command, timeout)] :
          r \in bashRuns(command, params)}

bashExecuteUnchecked(params) ==
  LET command == ToStr(Get(params, "command"))
  IN  execPromise(command, timeoutOf(params), params)

\* BashTool.execute: the results it can return, each with the operation
\* it invoked
bashExecute(params) ==
  LET command == ToStr(Get(params, "command"))
  IN  IF isDangerous(command)
      THEN {[result |-> error("Dangerous command detected and blocked: \""
                              \o command \o "\". This command could cause "
                              \o "system damage. Please run it manually if "
                              \o "you're certain."),
             effect |-> NoEffect]}
      ELSE execPromise(command, timeoutOf(params), params)

\* BashTool.schema and GitPushTool.schema: field, type, required
BashSchema ==
  << <<"command", "str", TRUE>>, <<"timeout", "num", FALSE>> >>

GitPushSchema ==
  << <<"branch", "str", FALSE>>, <<"force", "bool", FALSE>>,
     <<"set_upstream", "bool", FALSE>> >>

\* the branches the repository can be on
Branches == {"main", "dev"}

\* GitPushTool.execute
gitPushExecute(params) ==
  LET force  == Truthy(Get(params, "force"))
      branch == Get(params, "branch")
      options == (IF force THEN <<"--force">> ELSE <<>>)
                 \o (IF Truthy(Get(params, "set_upstream"))
                     THEN <<"--set-upstream">> ELSE <<>>)
  IN  IF force /\ (branch = Str("main") \/ branch = Str("master"))
      THEN {[result |-> error("Force push to main/master branch is blocked "
                              \o "for safety. Please run this manually if "
                              \o "absolutely necessary."),
             effect |-> NoEffect]}
      ELSE LET targets == IF Truthy(branch) THEN {ToStr(branch)} ELSE Branches
           IN  {[result |-> success("Pushed " \o b \o " to origin"
                                    \o (IF force THEN " (force)" ELSE "")),
                 effect |-> Push(b, options)] : b \in targets}
               \cup {[result |-> error("Git push failed: rejected"),
                      effect |-> Push(b, options)] : b \in targets}
               \cup (IF Truthy(branch) THEN {}
                     ELSE {[result |-> error("Git push failed: not a git repository"),
                            effect |-> NoEffect]})

GitCommitSchema ==
  << <<"message", "str", TRUE>>, <<"files", "arr", FALSE>> >>

\* the messages of the errors git.add and git.commit can reject with
AddErrors    == {"pathspec 'b.txt' did not match any files"}
CommitErrors == {"Author identity unknown", "pre-commit hook failed"}

\* the text appended to the commit message, without its emoji
Attribution ==
  "\n\nGenerated with CLI AI Tool\n\nCo-Authored-By: AI Assistant <noreply@example.com>"

\* GitCommitTool.execute: the files are staged, then the commit is created;
\* every rejection ends in the same catch
gitCommitExecute(params) ==
  LET files   == Get(params, "files")
      stage   == Truthy(files) /\ Len(files.a) > 0
      staged  == IF stage THEN files.a ELSE <<>>
      message == ToStr(Get(params, "message")) \o Attribution
  IN  (IF stage
       THEN {[result |-> error("Git commit failed: " \o m), effect |-> NoEffect] :
               m \in AddErrors}
       ELSE {})
      \cup {[result |-> error("Git commit failed: " \o m),
              effect |-> IF stage THEN Staged(staged) ELSE NoEffect] :
               m \in CommitErrors}
      \cup {[result |-> success("Created commit: abc1234\n1 changes, 1 insertions, "
                                \o "0 deletions"),
              effect |-> Commit(message, staged)]}

\* tool.execute(toolCall.args) of the resolved tool; a tool whose execute
\* is not modelled returns any outcome and invokes nothing
execute(call) ==
  CASE call.name = "bash"     -> bashExecute(call.args)
    [] call.name = "git_commit" -> gitCommitExecute(call.args)
    [] call.name = "git_push" -> gitPushExecute(call.args)
    [] OTHER -> {[result |-> r, effect |-> NoEffect] : r \in ToolOutcomes}

overrideKeyNameOnly(call) == call.name \o ":"

overrideKey(call) == call.name \o ":" \o JSONstringify(call.args)

NoCall == [id |-> "", name |-> "", args |-> <<>>]

NoKeys == [done |-> FALSE, a |-> "", b |-> ""]

NoAttach == [done |-> FALSE, attached |-> <<>>]

NoToolResult == [done |-> FALSE, success |-> FALSE, output |-> "", error |-> ""]

NoTodoCall == [action |-> "", todos |-> <<>>, given |-> FALSE]

\* no manage_todos call has been made
TodoIdle ==
  /\ todos = <<>>
  /\ tdCall = NoTodoCall
  /\ tdResult = NoToolResult

NoFile == [exists |-> FALSE, content |-> "", error |-> ""]

NoEditParams ==
  [file_path |-> "", search |-> "", replace |-> "", replace_all |-> FALSE]

\* no edit_file call is being looked at
EditIdle ==
  /\ edFile = NoFile
  /\ edParams = NoEditParams
  /\ edResult = NoToolResult

\* no interactive session is being looked at
CliIdle ==
  /\ activeModel = ""
  /\ startModel = ""
  /\ prModelId = ""
  /\ prModel = ""
  /\ prApiKey = ""
  /\ cliSteps = 0
  /\ cliUsed = ""

SideIdle == TodoIdle /\ EditIdle /\ CliIdle

\* no attachMentionedFiles call is being looked at
AttachIdle ==
  /\ atInput = ""
  /\ atTree = <<>>
  /\ atResult = NoAttach

\* no tool has been handed to register
RegIdle == registered = <<>>

\* no key computation in progress
KeyIdle ==
  /\ kcA = NoCall
  /\ kcB = NoCall
  /\ kcKeys = NoKeys

\* no exception has reached the catch block of executeSingle
NotCaught == [thrown |-> FALSE, message |-> ""]

Fresh(call) ==
  [call |-> call, resolved |-> FALSE, consulted |-> FALSE, needsConfirm |-> FALSE,
   remembered |-> FALSE, prompted |-> FALSE, confirmed |-> FALSE,
   declined |-> FALSE, executed |-> FALSE, effect |-> NoEffect,
   caught |-> NotCaught,
   priorRemember |-> [name |-> call.name, args |-> call.args] \in remembered]

\* executeMultiple is entered: nothing has run yet
StartBatch(calls) ==
  /\ batch' = calls
  /\ results' = <<>>
  /\ cur' = Fresh(NoCall)
  /\ epc' = "next"

\* executeSingle up to its first suspension: the lookup, shouldConfirm and
\* the session override test
executeSingleBegin ==
  /\ epc = "next"
  /\ Len(results) < Len(batch)
  /\ LET call == batch[Len(results) + 1] IN
       IF ~has(tools, call.name)
       THEN /\ results' = Append(results, NotFound(call.name))
            /\ cur' = Fresh(call)
            /\ epc' = "next"
       ELSE LET tool  == get(tools, call.name)
                needs == shouldConfirm(tool, call.args, prefs)
                known == overrideKey(call) \in sessionOverrides
            IN  /\ cur' = [Fresh(call) EXCEPT
                             !.resolved = TRUE, !.consulted = TRUE,
                             !.needsConfirm = needs,
                             !.remembered = needs /\ known,
                             !.prompted = needs /\ ~known,
                             !.executed = ~(needs /\ ~known)]
                /\ epc' = IF needs /\ ~known THEN "prompt" ELSE "execute"
                /\ UNCHANGED results
  /\ UNCHANGED <<tools, prefs, sessionOverrides, batch, remembered, rounds>>

Remember(call, rememberChoice) ==
  remembered' =
    IF rememberChoice
    THEN remembered \cup {[name |-> call.name, args |-> call.args]}
    ELSE remembered

promptDeclineRuns(confirmed, rememberChoice) ==
  /\ epc = "prompt"
  /\ sessionOverrides' =
       IF rememberChoice
       THEN sessionOverrides \cup {overrideKey(cur.call)} ELSE sessionOverrides
  /\ Remember(cur.call, rememberChoice)
  /\ cur' = [cur EXCEPT !.confirmed = confirmed, !.declined = ~confirmed,
                        !.executed = TRUE]
  /\ epc' = "execute"
  /\ UNCHANGED <<tools, prefs, batch, results, rounds>>

promptNeverRemembers(confirmed, rememberChoice) ==
  /\ epc = "prompt"
  /\ IF ~confirmed
     THEN /\ results' = Append(results, Cancelled)
          /\ cur' = [cur EXCEPT !.declined = TRUE]
          /\ epc' = "next"
     ELSE /\ cur' = [cur EXCEPT !.confirmed = TRUE, !.executed = TRUE]
          /\ epc' = "execute"
          /\ UNCHANGED results
  /\ Remember(cur.call, confirmed /\ rememberChoice)
  /\ UNCHANGED <<tools, prefs, sessionOverrides, batch, rounds>>

\* an accepted prompt being remembered whatever the "remember" answer
promptAlwaysRemembers(confirmed, rememberChoice) ==
  /\ epc = "prompt"
  /\ IF ~confirmed
     THEN /\ results' = Append(results, Cancelled)
          /\ cur' = [cur EXCEPT !.declined = TRUE]
          /\ epc' = "next"
          /\ UNCHANGED <<sessionOverrides, remembered>>
     ELSE /\ sessionOverrides' = sessionOverrides \cup {overrideKey(cur.call)}
          /\ Remember(cur.call, rememberChoice)
          /\ cur' = [cur EXCEPT !.confirmed = TRUE, !.executed = TRUE]
          /\ epc' = "execute"
          /\ UNCHANGED results
  /\ UNCHANGED <<tools, prefs, batch, rounds>>

\* the answer of promptConfirmation and what executeSingle does with it
promptAnswered(confirmed, rememberChoice) ==
  /\ epc = "prompt"
  /\ IF ~confirmed
     THEN /\ results' = Append(results, Cancelled)
          /\ cur' = [cur EXCEPT !.declined = TRUE]
          /\ epc' = "next"
          /\ UNCHANGED <<sessionOverrides, remembered>>
     ELSE /\ sessionOverrides' =
               IF rememberChoice
               THEN sessionOverrides \cup {overrideKey(cur.call)}
               ELSE sessionOverrides
          /\ Remember(cur.call, rememberChoice)
          /\ cur' = [cur EXCEPT !.confirmed = TRUE, !.executed = TRUE]
          /\ epc' = "execute"
          /\ UNCHANGED results
  /\ UNCHANGED <<tools, prefs, batch, rounds>>

\* the answers inquirer can deliver: remember is asked only when proceeding
PromptAnswers ==
  {<<FALSE, FALSE>>, <<TRUE, FALSE>>, <<TRUE, TRUE>>}

\* promptConfirmation rejects (the terminal is closed): the catch-all
promptThrows(msg) ==
  /\ epc = "prompt"
  /\ cur' = [cur EXCEPT !.caught = [thrown |-> TRUE, message |-> msg]]
  /\ results' = Append(results, Caught(msg))
  /\ epc' = "next"
  /\ UNCHANGED <<tools, prefs, sessionOverrides, batch, remembered, rounds>>

\* tool.execute returns r, having invoked the operation of that outcome
toolReturns(r) ==
  /\ epc = "execute"
  /\ \E o \in execute(cur.call) :
       /\ o.result = r
       /\ cur' = [cur EXCEPT !.effect = o.effect]
  /\ results' = Append(results, r)
  /\ epc' = "next"
  /\ UNCHANGED <<tools, prefs, sessionOverrides, batch, remembered, rounds>>

\* tool.execute, or the code around it inside the try, throws: the catch-all
toolThrowsEscapes(msg) ==
  /\ epc = "execute"
  /\ cur' = [cur EXCEPT !.caught = [thrown |-> TRUE, message |-> msg]]
  /\ results' = <<>>
  /\ batch' = <<>>
  /\ epc' = "idle"
  /\ UNCHANGED <<tools, prefs, sessionOverrides, remembered, rounds>>

toolThrows(msg) ==
  /\ epc = "execute"
  /\ cur' = [cur EXCEPT !.caught = [thrown |-> TRUE, message |-> msg]]
  /\ results' = Append(results, Caught(msg))
  /\ epc' = "next"
  /\ UNCHANGED <<tools, prefs, sessionOverrides, batch, remembered, rounds>>

\* the messages of the exceptions a prompt and a tool can throw
PromptErrors == {"User force closed the prompt"}
ToolErrors   == {"", "spawn ENOMEM"}

\* ToolExecutor.formatResultsAsMessages: plain objects, one per call
formatResultsAsMessages(calls, res) ==
  [index \in 1..Len(calls) |->
     [role |-> "tool",
      content |-> IF res[index].success THEN res[index].output
                  ELSE "Error: " \o res[index].error,
      tool_call_id |-> calls[index].id,
      name |-> calls[index].name]]

\* setPreference: the configuration file changes while the executor is idle
setPreference(key, value) ==
  /\ epc = "idle"
  /\ prefs' = [prefs EXCEPT ![key] = value]
  /\ prefs' # prefs
  /\ UNCHANGED <<tools, sessionOverrides, epc, batch, results, cur, remembered,
                 rounds>>

(***************************************************************************)
(* The executor driven directly: executeMultiple on drawn batches          *)
(***************************************************************************)

MaxBatch  == 2
MaxRounds == 2

Call(id, name, args) == [id |-> id, name |-> name, args |-> args]

ReadCall   == Call("call_r", "read_file", << <<"file_path", Str("a.txt")>> >>)
WriteCall  == Call("call_w", "write_file",
                   << <<"file_path", Str("a.txt")>>, <<"content", Str("x")>> >>)
BashRm     == Call("call_b", "bash", << <<"command", Str("rm -rf /")>> >>)
BashLs     == Call("call_l", "bash", << <<"command", Str("ls")>> >>)
DeployCall == Call("call_d", "deploy", <<>>)
\* a tool call the model sent without an id
NoIdCall   == Call("", "read_file", << <<"file_path", Str("a.txt")>> >>)
NopeCall   == Call("call_n", "nope", <<>>)

\* the calls a direct caller hands to executeMultiple
ExecCalls == {BashRm, BashLs, DeployCall, NopeCall}

\* every result the execute of one of the calls can return
ToolResults(calls) == UNION {{o.result : o \in execute(c)} : c \in calls}

SeqsUpTo(S, n) == UNION {[1..k -> S] : k \in 1..n}

\* the registry after start-up, in registration order
CatalogOrder ==
  <<ReadFileTool, WriteFileTool, EditFileTool, GlobTool, GrepTool, BashTool,
    GitStatusTool, GitAddTool, GitDiffTool, GitLogTool, GitCommitTool,
    GitBranchTool, GitPushTool, TodoTool>>

SafetyIdle ==
  /\ scTool = ReadFileTool
  /\ scParams = <<>>
  /\ scPrefs = DefaultPreferences
  /\ scResult = NoResult

NoReturn == [success |-> FALSE, error |-> "", isModelError |-> FALSE,
             errorType |-> "", returned |-> FALSE]

NoThrow == [by |-> "none", message |-> ""]

\* no request is being served
NoRequest == [model |-> "", messages |-> <<>>]

\* no stream is being consumed
NoAcc == [open |-> FALSE, fullResponse |-> "", toolCalls |-> <<>>]

\* no ChatHandler has been constructed
HandlerNone ==
  /\ messages = <<>>
  /\ hpc = "none"
  /\ input = ""
  /\ iterationCount = 0
  /\ toolCalls = <<>>
  /\ usage = [requestCount |-> 0]
  /\ ret = NoReturn
  /\ thrown = NoThrow
  /\ turnBase = <<>>
  /\ requests = 0
  /\ sizes = <<>>
  /\ warned = FALSE
  /\ turns = 0
  /\ stream = <<>>
  /\ acc = NoAcc
  /\ modelId = ""
  /\ sent = NoRequest
  /\ budget = 0

ExecInit ==
  /\ SafetyIdle
  /\ HandlerNone
  /\ KeyIdle
  /\ SideIdle
  /\ RegIdle
  /\ AttachIdle
  /\ tools = CatalogOrder \o <<Tool("deploy", FALSE, TRUE)>>
  /\ prefs \in Preferences
  /\ sessionOverrides = {}
  /\ epc = "idle"
  /\ batch = <<>>
  /\ results = <<>>
  /\ remembered = {}
  /\ cur = Fresh(NoCall)
  /\ rounds = 0

executeMultiple(calls) ==
  /\ epc = "idle"
  /\ rounds < MaxRounds
  /\ rounds' = rounds + 1
  /\ StartBatch(calls)
  /\ UNCHANGED <<tools, prefs, sessionOverrides, remembered>>

executeMultipleStopsAtFailure ==
  /\ hpc = "none"
  /\ epc = "next"
  /\ \/ Len(results) = Len(batch)
     \/ Len(results) > 0 /\ ~results[Len(results)].success
  /\ epc' = "idle"
  /\ batch' = <<>>
  /\ results' = <<>>
  /\ cur' = Fresh(NoCall)
  /\ UNCHANGED <<tools, prefs, sessionOverrides, remembered, rounds>>

\* executeMultiple returns its list to the caller; its locals are gone
executeMultipleReturn ==
  /\ hpc = "none"
  /\ epc = "next"
  /\ Len(results) = Len(batch)
  /\ epc' = "idle"
  /\ batch' = <<>>
  /\ results' = <<>>
  /\ cur' = Fresh(NoCall)
  /\ UNCHANGED <<tools, prefs, sessionOverrides, remembered, rounds>>

\* ToolExecutor.clearSessionOverrides: the session memory is emptied, and
\* with it the record of the calls accepted with "remember"
clearSessionOverrides ==
  /\ epc = "idle"
  /\ sessionOverrides' = {}
  /\ remembered' = {}
  /\ UNCHANGED <<tools, prefs, epc, batch, results, cur, rounds>>

ExecFrame == UNCHANGED <<safetyVars, handlerVars, budget, keyVars, regVars,
                attachVars, sideVars>>

ExecNext ==
  \/ \E calls \in SeqsUpTo(ExecCalls, MaxBatch) : executeMultiple(calls) /\ ExecFrame
  \/ executeSingleBegin /\ ExecFrame
  \/ \E a \in PromptAnswers : promptAnswered(a[1], a[2]) /\ ExecFrame
  \/ \E m \in PromptErrors : promptThrows(m) /\ ExecFrame
  \/ \E r \in ToolResults(ExecCalls) : toolReturns(r) /\ ExecFrame
  \/ \E m \in ToolErrors : toolThrows(m) /\ ExecFrame
  \/ executeMultipleReturn /\ ExecFrame
  \/ \E k \in {"autoConfirm", "safeMode"}, v \in BOOLEAN :
       setPreference(k, v) /\ ExecFrame
  \/ clearSessionOverrides /\ ExecFrame

ExecSpec == ExecInit /\ [][ExecNext]_vars

SafetyExecIdle ==
  /\ tools = CatalogOrder
  /\ prefs = DefaultPreferences
  /\ sessionOverrides = {}
  /\ epc = "idle"
  /\ batch = <<>>
  /\ results = <<>>
  /\ remembered = {}
  /\ cur = Fresh(NoCall)
  /\ rounds = 0

SafetyNext ==
  ShouldConfirmCall
  /\ UNCHANGED <<execVars, handlerVars, budget, keyVars, regVars,
                attachVars, sideVars>>

SafetyStart ==
  /\ SafetyInit
  /\ SafetyExecIdle
  /\ HandlerNone
  /\ KeyIdle
  /\ SideIdle
  /\ RegIdle
  /\ AttachIdle

SafetySpec == SafetyStart /\ [][SafetyNext]_vars

(***************************************************************************)
(* executeSingle on one drawn call of a tool whose execute is modelled     *)
(***************************************************************************)

ShellCommands ==
  {"ls", "rm -rf /", "sudo rm  -rf \t/var", "rm -rf build", "rm -r /",
   "mkfs.ext4 /dev/sda1", "dd if=/dev/zero of=disk", "echo x > /dev/sda",
   "echo x >/dev/sdb", "echo x > /dev/null", "chmod -R 777 .", "chmod 777 f",
   "chown  -R me .", "chown me f", ":(){ :|:& };:", "git status"}

PushArgs ==
  { <<>>,
    << <<"force", Bool(TRUE)>> >>,
    << <<"force", Bool(TRUE)>>, <<"branch", Str("main")>> >>,
    << <<"force", Bool(TRUE)>>, <<"branch", Str("master")>> >>,
    << <<"force", Bool(TRUE)>>, <<"branch", Str("dev")>> >>,
    << <<"force", Bool(FALSE)>>, <<"branch", Str("main")>> >>,
    << <<"branch", Str("main")>>, <<"set_upstream", Bool(TRUE)>> >>,
    << <<"force", Bool(TRUE)>>, <<"branch", Str("main")>>,
       <<"set_upstream", Bool(TRUE)>> >>,
    << <<"force", Str("false")>>, <<"branch", Str("dev")>> >> }

\* the arguments of the drawn git_commit calls
CommitArgs ==
  { << <<"message", Str("fix")>> >>,
    << <<"message", Str("fix")>>, <<"files", Arr(<<>>)>> >>,
    << <<"message", Str("fix")>>, <<"files", Arr(<<"a.txt">>)>> >>,
    << <<"message", Str("fix")>>, <<"files", Arr(<<"a.txt", "b.txt">>)>> >> }

\* the timeouts a bash call can ask for, in milliseconds
Timeouts == {-5, 0, 1, 5000, 600000, 600001, 900000}

ToolCalls ==
  {Call("call_t", "bash", << <<"command", Str(c)>> >>) : c \in ShellCommands}
  \cup {Call("call_t", "bash",
              << <<"command", Str("sleep 700")>>, <<"timeout", Num(t)>> >>) :
          t \in Timeouts}
  \cup {Call("call_t", "git_commit", a) : a \in CommitArgs}
  \cup {Call("call_t", "git_push", a) : a \in PushArgs}

\* executeSingle is entered with a drawn call; the call may have been
\* accepted with "remember" earlier in the process
ToolInit ==
  /\ tools = CatalogOrder
  /\ prefs \in Preferences
  /\ batch \in {<<c>> : c \in ToolCalls}
  /\ sessionOverrides \in {{}, {overrideKey(batch[1])}}
  /\ remembered = {[name |-> batch[1].name, args |-> batch[1].args] :
                     k \in sessionOverrides}
  /\ epc = "next"
  /\ results = <<>>
  /\ cur = Fresh(NoCall)
  /\ rounds = 0

ToolStart ==
  /\ ToolInit
  /\ SafetyIdle
  /\ HandlerNone
  /\ KeyIdle
  /\ SideIdle
  /\ RegIdle
  /\ AttachIdle

\* the executes of bash and git_push catch every exception themselves
ToolNext ==
  \/ executeSingleBegin /\ ExecFrame
  \/ \E a \in PromptAnswers : promptAnswered(a[1], a[2]) /\ ExecFrame
  \/ \E m \in PromptErrors : promptThrows(m) /\ ExecFrame
  \/ \E r \in ToolResults(ToolCalls) : toolReturns(r) /\ ExecFrame

ToolSpec == ToolStart /\ [][ToolNext]_vars

(***************************************************************************)
(* One attachMentionedFiles call on a drawn input and file tree            *)
(***************************************************************************)

\* file.split("/").pop() || ""
RECURSIVE basename(_)
basename(file) ==
  IF \E i \in 1..Len(file) : Char(file, i) = "/"
  THEN basename(SubSeq(file, 1 + (CHOOSE i \in 1..Len(file) : Char(file, i) = "/"),
                       Len(file)))
  ELSE file

File(path, content) == [path |-> path, content |-> content]

\* the files the working directory can hold, in the order glob lists them
AllFiles ==
  << File("src/utils.ts", "export {}"),
     File("utils.ts", "x"),
     File("src/ab", "y"),
     File("pkg/__init__.py", ""),
     File("docs/utils.ts.md", "z") >>

RECURSIVE SubSequences(_)
SubSequences(list) ==
  IF Len(list) = 0 THEN {<<>>}
  ELSE LET rest == SubSequences(Tail(list))
       IN  rest \cup {<<list[1]>> \o t : t \in rest}

AttachInputs ==
  {"fix the bug in utils.ts", "see src/utils.ts", "open src/ab", "ab",
   "edit __init__.py", "read docs/utils.ts.md", "hello"}

\* getFileContent: the content, "" when the file cannot be read
getFileContent(tree, path) ==
  IF \E i \in 1..Len(tree) : tree[i].path = path
  THEN tree[CHOOSE i \in 1..Len(tree) : tree[i].path = path].content
  ELSE ""

\* ChatHandler.attachMentionedFiles over the file tree getFileTree returned
attachMentionedFiles(text, tree) ==
  LET mentioned(i) ==
        LET file        == tree[i].path
            base        == basename(file)
            isBaseMatch == Len(base) > 2 /\ includes(text, base)
            isPathMatch == includes(text, file)
        IN  (isPathMatch \/ isBaseMatch) /\ getFileContent(tree, file) # ""
      kept == SelectSeq([i \in 1..Len(tree) |-> i], mentioned)
  IN  [k \in 1..Len(kept) |-> tree[kept[k]].path]

AttachInit ==
  /\ atInput \in AttachInputs
  /\ atTree \in SubSequences(AllFiles)
  /\ atResult = NoAttach

attachCall ==
  /\ ~atResult.done
  /\ atResult' = [done |-> TRUE, attached |-> attachMentionedFiles(atInput, atTree)]
  /\ UNCHANGED <<atInput, atTree>>

AttachStart ==
  /\ AttachInit
  /\ SafetyIdle
  /\ SafetyExecIdle
  /\ HandlerNone
  /\ KeyIdle
  /\ SideIdle
  /\ RegIdle

AttachNext ==
  attachCall
  /\ UNCHANGED <<safetyVars, execVars, handlerVars, budget, keyVars, regVars,
                 sideVars>>

AttachSpec == AttachStart /\ [][AttachNext]_vars

(***************************************************************************)
(* ToolRegistry under a sequence of register calls                         *)
(***************************************************************************)

MaxRegisters == 4

\* a tool object: inst tells apart two objects of equal content
ToolObject(inst, n, desc, keys) ==
  [inst |-> inst, name |-> n, description |-> desc, shape |-> keys,
   requiresConfirmation |-> FALSE, destructive |-> FALSE]

\* the tool objects handed to register
ToolObjects ==
  { ToolObject(1, "read_file", "Read a file", <<"file_path", "offset", "limit">>),
    ToolObject(2, "read_file", "Read a file", <<"file_path", "offset", "limit">>),
    ToolObject(3, "bash", "Execute bash/shell commands", <<"command", "timeout">>),
    ToolObject(4, "bash", "Run a command", <<"cmd">>),
    ToolObject(5, "git_status", "Get git status", <<>>) }

registerKeepsFirst(reg, tool) ==
  IF has(reg, tool.name) THEN reg ELSE Append(reg, tool)

registerAppends(reg, tool) == Append(reg, tool)

\* ToolRegistry.register: Map.set keeps the place of a name it already
\* holds and replaces its value
register(reg, tool) ==
  IF has(reg, tool.name)
  THEN [i \in 1..Len(reg) |-> IF reg[i].name = tool.name THEN tool ELSE reg[i]]
  ELSE Append(reg, tool)

\* ToolRegistry.getAll and ToolRegistry.count
getAll(reg) == reg
count(reg)  == Len(reg)

\* Array.prototype.join
RECURSIVE join(_, _)
join(list, sep) ==
  IF Len(list) = 0 THEN ""
  ELSE IF Len(list) = 1 THEN list[1]
  ELSE list[1] \o sep \o join(Tail(list), sep)

\* ToolRegistry.getToolDescriptions
getToolDescriptions(reg) ==
  LET descriptions ==
        [i \in 1..Len(getAll(reg)) |->
           "- " \o reg[i].name \o "(" \o join(reg[i].shape, ", ") \o "): "
                \o reg[i].description]
  IN  join(descriptions, "\n")

RegInit ==
  /\ tools = <<>>
  /\ registered = <<>>

registerCall(tool) ==
  /\ Len(registered) < MaxRegisters
  /\ tools' = register(tools, tool)
  /\ registered' = Append(registered, tool)
  /\ UNCHANGED <<prefs, sessionOverrides, epc, batch, results, cur,
                 remembered, rounds>>

RegStart ==
  /\ RegInit
  /\ AttachIdle
  /\ SafetyIdle
  /\ HandlerNone
  /\ KeyIdle
  /\ SideIdle
  /\ prefs = DefaultPreferences
  /\ sessionOverrides = {}
  /\ epc = "idle"
  /\ batch = <<>>
  /\ results = <<>>
  /\ remembered = {}
  /\ cur = Fresh(NoCall)
  /\ rounds = 0

RegNext ==
  \E tool \in ToolObjects :
    registerCall(tool)
    /\ UNCHANGED <<safetyVars, handlerVars, budget, keyVars, attachVars,
                   sideVars>>

RegistrySpec == RegStart /\ [][RegNext]_vars

(***************************************************************************)
(* TodoTool under a sequence of manage_todos calls                         *)
(***************************************************************************)

MaxTodos == 2

\* an item of params.todos; id "" stands for an item given without id
Given(id, content, status) ==
  [id |-> id, content |-> content, activeForm |-> "Doing " \o content,
   status |-> status]

GivenItems ==
  {Given("t1", "A", "pending"), Given("", "A", "in_progress"),
   Given("t2", "B", "completed")}

\* the params of the drawn calls: todos absent, empty, or up to two items
TodoParams ==
  {[action |-> a, todos |-> <<>>, given |-> g] :
     a \in {"create", "update", "complete", "list", "clear", "remove"},
     g \in BOOLEAN}
  \cup {[action |-> a, todos |-> t, given |-> TRUE] :
          a \in {"create", "update", "complete"},
          t \in UNION {[1..k -> GivenItems] : k \in 1..2}}

\* the instants Date.now() reads during the drawn calls
TodoClock == {"100", "200"}

\* the id create gives an item that came without one; the random suffix of
\* the source is taken to be the position of the item, which keeps ids apart
generatedId(now, position) == "todo-" \o now \o "-" \o ToString(position)

\* the list after 'create'
createTodos(list, given, now) ==
  list \o [i \in 1..Len(given) |->
             [id |-> IF given[i].id = ""
                     THEN generatedId(now, Len(list) + i) ELSE given[i].id,
              content |-> given[i].content,
              activeForm |-> given[i].activeForm,
              status |-> given[i].status,
              createdAt |-> now]]

\* todos.findIndex(t => t.id === u.id || t.content === u.content); 0 for -1
findIndex(list, u) ==
  LET hits == {i \in 1..Len(list) :
                 list[i].id = u.id \/ list[i].content = u.content}
  IN  IF hits = {} THEN 0 ELSE CHOOSE i \in hits : \A j \in hits : i <= j

\* an update that applies to every matching item
RECURSIVE updateTodosAll(_, _)
updateTodosAll(list, given) ==
  IF Len(given) = 0 THEN list
  ELSE LET u == given[1]
       IN  updateTodosAll(
             [i \in 1..Len(list) |->
                IF list[i].id = u.id \/ list[i].content = u.content
                THEN [list[i] EXCEPT !.content = u.content,
                                     !.activeForm = u.activeForm,
                                     !.status = u.status]
                ELSE list[i]],
             Tail(given))

\* the loop of 'update': each given item rewrites the first item it matches
RECURSIVE updateTodos(_, _)
updateTodos(list, given) ==
  IF Len(given) = 0 THEN list
  ELSE LET u     == given[1]
           index == findIndex(list, u)
       IN  updateTodos(
             IF index # 0
             THEN [list EXCEPT ![index] =
                     [@ EXCEPT !.content = u.content,
                               !.activeForm = u.activeForm,
                               !.status = u.status]]
             ELSE list,
             Tail(given))

\* the loop of 'complete'
RECURSIVE completeTodos(_, _)
completeTodos(list, given) ==
  IF Len(given) = 0 THEN list
  ELSE LET index == findIndex(list, given[1])
       IN  completeTodos(
             IF index # 0 THEN [list EXCEPT ![index].status = "completed"]
             ELSE list,
             Tail(given))

\* todos.filter(t => t.status === status).length
countStatus(list, status) ==
  Cardinality({i \in 1..Len(list) : list[i].status = status})

ToolResult(r) ==
  [done |-> TRUE, success |-> r.success, output |-> r.output, error |-> r.error]

\* TodoTool.execute: the list it stores and the result it returns
todoExecute(list, params, now) ==
  LET none == ~params.given \/ Len(params.todos) = 0
  IN  CASE params.action = "create" ->
             IF none
             THEN [todos |-> list,
                   result |-> error("No todos provided for create action")]
             ELSE [todos |-> createTodos(list, params.todos, now),
                   result |-> success("Created " \o ToString(Len(params.todos))
                                      \o " todo(s)")]
        [] params.action = "update" ->
             IF none
             THEN [todos |-> list,
                   result |-> error("No todos provided for update action")]
             ELSE [todos |-> updateTodos(list, params.todos),
                   result |-> success("Updated " \o ToString(Len(params.todos))
                                      \o " todo(s)")]
        [] params.action = "complete" ->
             IF none
             THEN [todos |-> list,
                   result |-> error("No todos provided for complete action")]
             ELSE [todos |-> completeTodos(list, params.todos),
                   result |-> success("Completed " \o ToString(Len(params.todos))
                                      \o " todo(s)")]
        [] params.action = "list" ->
             [todos |-> list,
              result |-> success(
                "Total todos: " \o ToString(Len(list)) \o " ("
                \o ToString(countStatus(list, "pending")) \o " pending, "
                \o ToString(countStatus(list, "in_progress")) \o " in progress, "
                \o ToString(countStatus(list, "completed")) \o " completed)")]
        [] params.action = "clear" ->
             [todos |-> <<>>, result |-> success("Cleared all todos")]
        [] OTHER ->
             [todos |-> list,
              result |-> error("Unknown action: " \o params.action)]

TodoInit ==
  /\ todos = <<>>
  /\ tdCall = NoTodoCall
  /\ tdResult = NoToolResult

\* one manage_todos call; the list is kept within MaxTodos items
todoCall(params, now) ==
  LET out == todoExecute(todos, params, now)
  IN  /\ Len(out.todos) <= MaxTodos
      /\ todos' = out.todos
      /\ tdCall' = params
      /\ tdResult' = ToolResult(out.result)

TodoStart ==
  /\ TodoInit
  /\ EditIdle
  /\ CliIdle
  /\ AttachIdle
  /\ RegIdle
  /\ KeyIdle
  /\ SafetyIdle
  /\ SafetyExecIdle
  /\ HandlerNone

TodoNext ==
  \E params \in TodoParams, now \in TodoClock :
    todoCall(params, now)
    /\ UNCHANGED <<safetyVars, execVars, handlerVars, budget, keyVars, regVars,
                   attachVars, editVars, cliVars>>

TodoSpec == TodoStart /\ [][TodoNext]_vars

(***************************************************************************)
(* EditFileTool on one file                                                *)
(***************************************************************************)

\* String.prototype.indexOf from a position; 0 for -1
indexOf(s, pat, from) ==
  LET hits == {i \in from..(Len(s) - Len(pat) + 1) :
                 SubSeq(s, i, i + Len(pat) - 1) = pat}
  IN  IF hits = {} THEN 0 ELSE CHOOSE i \in hits : \A j \in hits : i <= j

\* String.prototype.split with a string separator
RECURSIVE split(_, _)
split(s, sep) ==
  IF sep = "" THEN [i \in 1..Len(s) |-> Char(s, i)]
  ELSE LET i == indexOf(s, sep, 1)
       IN  IF i = 0 THEN <<s>>
           ELSE <<SubSeq(s, 1, i - 1)>>
                \o split(SubSeq(s, i + Len(sep), Len(s)), sep)

\* the replacement text with its patterns $$ and $& substituted (the drawn
\* replacements hold no other pattern)
RECURSIVE GetSubstitution(_, _)
GetSubstitution(replacement, matched) ==
  IF Len(replacement) = 0 THEN ""
  ELSE IF Len(replacement) >= 2 /\ Char(replacement, 1) = "$"
          /\ Char(replacement, 2) \in {"$", "&"}
       THEN (IF Char(replacement, 2) = "$" THEN "$" ELSE matched)
            \o GetSubstitution(SubSeq(replacement, 3, Len(replacement)),
                               matched)
       ELSE Char(replacement, 1)
            \o GetSubstitution(SubSeq(replacement, 2, Len(replacement)),
                               matched)

\* String.prototype.replace with a string pattern: the first occurrence only
replace(s, search, replacement) ==
  LET i == indexOf(s, search, 1)
  IN  IF i = 0 THEN s
      ELSE SubSeq(s, 1, i - 1) \o GetSubstitution(replacement, search)
           \o SubSeq(s, i + Len(search), Len(s))

EditFile(exists, content, err) ==
  [exists |-> exists, content |-> content, error |-> err]

\* the file the call finds: missing, readable, or one the file system refuses
EditFiles ==
  {NoFile}
  \cup {EditFile(TRUE, c, "") : c \in {"foo bar foo", "bar", ""}}
  \cup {EditFile(TRUE, "foo bar foo", "EACCES: permission denied")}

EditParams ==
  {[file_path |-> "a.txt", search |-> s, replace |-> r, replace_all |-> all] :
     s \in {"foo", "o", "baz"}, r \in {"qux", "foo", "", "$&d"},
     all \in BOOLEAN}

\* newContent of EditFileTool.execute
newContentOf(originalContent, params) ==
  IF params.replace_all
  THEN join(split(originalContent, params.search), params.replace)
  ELSE replace(originalContent, params.search, params.replace)

\* occurrences of EditFileTool.execute
occurrencesOf(originalContent, params) ==
  IF params.replace_all
  THEN Len(split(originalContent, params.search)) - 1
  ELSE 1

\* EditFileTool.execute: the file it leaves and the result it returns
editExecute(file, params) ==
  IF ~file.exists
  THEN [file |-> file,
        result |-> error("File not found: " \o params.file_path)]
  ELSE IF file.error # ""
  THEN [file |-> file,
        result |-> error("Failed to edit file: " \o file.error)]
  ELSE LET newContent  == newContentOf(file.content, params)
           occurrences == occurrencesOf(file.content, params)
       IN  IF file.content = newContent
           THEN [file |-> file,
                 result |-> error("Search text not found in file: \""
                                  \o params.search \o "\"")]
           ELSE [file |-> [file EXCEPT !.content = newContent],
                 result |-> success(
                   "Edited " \o params.file_path \o " ("
                   \o ToString(occurrences) \o " replacement"
                   \o (IF occurrences > 1 THEN "s" ELSE "") \o ")")]

EditInit ==
  /\ edFile \in EditFiles
  /\ edParams \in EditParams
  /\ edResult = NoToolResult

\* the edit_file call
editCall ==
  /\ ~edResult.done
  /\ LET out == editExecute(edFile, edParams)
     IN  /\ edFile' = out.file
         /\ edResult' = ToolResult(out.result)
  /\ UNCHANGED edParams

EditStart ==
  /\ EditInit
  /\ TodoIdle
  /\ CliIdle
  /\ AttachIdle
  /\ RegIdle
  /\ KeyIdle
  /\ SafetyIdle
  /\ SafetyExecIdle
  /\ HandlerNone

EditNext ==
  editCall
  /\ UNCHANGED <<safetyVars, execVars, handlerVars, budget, keyVars, regVars,
                 attachVars, todoVars, cliVars>>

EditSpec == EditStart /\ [][EditNext]_vars

(***************************************************************************)
(* The interactive session: /model, /api-key and requests                  *)
(***************************************************************************)

MaxCommands == 4

\* the ids offered by the model menu
CliModels ==
  {"llama-3.3-70b-versatile", "openai/gpt-oss-120b", "qwen/qwen3-32b"}

\* the keys typed at the api-key prompt, after trim()
CliKeys == {"gsk_new", ""}

\* GroqProvider.initialize: the fields of the provider after the call;
\* modelId "" stands for a call without modelId
initialize(provider, apiKey, id) ==
  LET newId == IF id # "" THEN id ELSE provider.modelId
  IN  [apiKey |-> apiKey, modelId |-> newId, model |-> newId]

\* GroqProvider.setModel
providerSetModel(provider, id) ==
  IF provider.apiKey # ""
  THEN initialize([provider EXCEPT !.modelId = id], provider.apiKey, id)
  ELSE [provider EXCEPT !.modelId = id]

Provider == [apiKey |-> prApiKey, modelId |-> prModelId, model |-> prModel]

SetProvider(p) ==
  /\ prApiKey' = p.apiKey
  /\ prModelId' = p.modelId
  /\ prModel' = p.model

\* start of the session: modelConfig is read once and the provider built on it
CliInit ==
  \E id \in CliModels :
    /\ activeModel = id
    /\ startModel = id
    /\ prModelId = id
    /\ prModel = id
    /\ prApiKey = "gsk_old"
    /\ cliSteps = 0
    /\ cliUsed = ""

\* the model command with another model selected
modelCommand(selectedModel) ==
  /\ cliSteps < MaxCommands
  /\ selectedModel # prModelId
  /\ activeModel' = selectedModel
  /\ SetProvider(providerSetModel(Provider, selectedModel))
  /\ cliSteps' = cliSteps + 1
  /\ UNCHANGED <<startModel, cliUsed>>

\* the api-key command: the provider is initialized with modelConfig.modelId
apiKeyCommand(key) ==
  /\ cliSteps < MaxCommands
  /\ SetProvider(initialize(Provider, key, startModel))
  /\ cliSteps' = cliSteps + 1
  /\ UNCHANGED <<activeModel, startModel, cliUsed>>

\* a request: streamChat streams from the client built by initialize
cliRequest ==
  /\ cliUsed' = prModel
  /\ UNCHANGED <<activeModel, startModel, prModelId, prModel, prApiKey,
                 cliSteps>>

CliStart ==
  /\ CliInit
  /\ TodoIdle
  /\ EditIdle
  /\ AttachIdle
  /\ RegIdle
  /\ KeyIdle
  /\ SafetyIdle
  /\ SafetyExecIdle
  /\ HandlerNone

CliFrame ==
  UNCHANGED <<safetyVars, execVars, handlerVars, budget, keyVars, regVars,
              attachVars, todoVars, editVars>>

CliNext ==
  \/ \E id \in CliModels : modelCommand(id) /\ CliFrame
  \/ \E key \in CliKeys : apiKeyCommand(key) /\ CliFrame
  \/ cliRequest /\ CliFrame

CliSpec == CliStart /\ [][CliNext]_vars

(***************************************************************************)
(* The confirmation-memory key of two drawn calls                          *)
(***************************************************************************)

\* the orders in which the entries of an argument map can have been inserted
Orderings(args) ==
  {[i \in 1..Len(args) |-> args[p[i]]] : p \in Permutations(1..Len(args))}

KeyArgs ==
  { <<>>,
    << <<"file_path", Str("a.txt")>>, <<"content", Str("x")>> >>,
    << <<"file_path", Str("a.txt")>>, <<"content", Str("y")>> >>,
    << <<"force", Bool(TRUE)>>, <<"branch", Str("main")>> >>,
    << <<"force", Bool(FALSE)>>, <<"branch", Str("main")>> >>,
    << <<"file_path", Str("a.txt")>>, <<"search", Str("x")>>, <<"replace", Str("y")>> >> }

KeyCalls ==
  {Call("call_k", n, o) :
     n \in {"write_file", "git_push"}, o \in UNION {Orderings(a) : a \in KeyArgs}}

KeyInit ==
  /\ kcA \in KeyCalls
  /\ kcB \in KeyCalls
  /\ kcKeys = NoKeys

\* the key executeSingle builds for each of the two calls
overrideKeys ==
  /\ ~kcKeys.done
  /\ kcKeys' = [done |-> TRUE, a |-> overrideKey(kcA), b |-> overrideKey(kcB)]
  /\ UNCHANGED <<kcA, kcB>>

KeyStart ==
  /\ KeyInit
  /\ RegIdle
  /\ AttachIdle
  /\ SafetyIdle
  /\ SafetyExecIdle
  /\ HandlerNone
  /\ SideIdle

KeyNext ==
  overrideKeys /\ UNCHANGED <<safetyVars, execVars, handlerVars, budget, regVars,
               attachVars, sideVars>>

KeySpec == KeyStart /\ [][KeyNext]_vars

(***************************************************************************)
(* ChatHandler                                                             *)
(***************************************************************************)

maxIterations == 10

Msg(role, content, calls, id, name) ==
  [role |-> role, content |-> content, tool_calls |-> calls,
   tool_call_id |-> id, name |-> name]

SystemMessage(c)       == Msg("system", c, <<>>, "", "")
HumanMessage(c)        == Msg("user", c, <<>>, "", "")
AIMessage(c, calls)    == Msg("assistant", c, calls, "", "")
ToolMessage(c, id, nm) == Msg("tool", c, <<>>, id, nm)

SystemPrompt == "You are an expert AI coding assistant"

modelErrorPatterns ==
  <<"rate limit", "rate_limit", "quota exceeded", "model not found",
    "model is not available", "model_not_available", "overloaded", "capacity",
    "too many requests", "429", "503", "502", "service unavailable", "timeout",
    "context length", "maximum context", "token limit">>

isModelError(errorMessage) ==
  LET lowerMessage == toLowerCase(errorMessage)
  IN  \E i \in 1..Len(modelErrorPatterns) : includes(lowerMessage, modelErrorPatterns[i])

classifyErrorWithTimeout(errorMessage) ==
  LET lowerMessage == toLowerCase(errorMessage) IN
  IF \/ includes(lowerMessage, "rate limit") \/ includes(lowerMessage, "429")
  THEN "rate_limit"
  ELSE IF includes(lowerMessage, "timeout") THEN "timeout"
  ELSE "unknown"

classifyError(errorMessage) ==
  LET lowerMessage == toLowerCase(errorMessage) IN
  IF \/ includes(lowerMessage, "rate limit")
     \/ includes(lowerMessage, "rate_limit")
     \/ includes(lowerMessage, "too many requests")
     \/ includes(lowerMessage, "429")
  THEN "rate_limit"
  ELSE IF \/ includes(lowerMessage, "model not found")
          \/ includes(lowerMessage, "not available")
          \/ includes(lowerMessage, "overloaded")
          \/ includes(lowerMessage, "503")
          \/ includes(lowerMessage, "502")
  THEN "model_unavailable"
  ELSE IF \/ includes(lowerMessage, "auth")
          \/ includes(lowerMessage, "api key")
          \/ includes(lowerMessage, "unauthorized")
          \/ includes(lowerMessage, "401")
  THEN "auth_error"
  ELSE "unknown"

Success == [success |-> TRUE, error |-> "", isModelError |-> FALSE,
            errorType |-> "", returned |-> TRUE]

\* the catch block of processUserInput: the returned failure
Failure(message) ==
  LET errorMessage == IF message = "" THEN "Unknown error" ELSE message
  IN  [success |-> FALSE, error |-> errorMessage,
       isModelError |-> isModelError(errorMessage),
       errorType |-> classifyError(errorMessage), returned |-> TRUE]

\* Array.prototype.pop
pop(list) == IF Len(list) = 0 THEN list ELSE SubSeq(list, 1, Len(list) - 1)

\* the catch block of processUserInput: the history it leaves
afterCatch(list, message) ==
  IF Failure(message).isModelError THEN pop(list) ELSE list

TextChunk(c)     == [content |-> c, tool_calls |-> <<>>]
ToolChunk(calls) == [content |-> "", tool_calls |-> calls]

\* the body of the for-await loop over the stream: text is concatenated,
\* the last non-empty tool-call list is kept
consume(chunk, a) ==
  [open |-> TRUE,
   fullResponse |-> a.fullResponse \o chunk.content,
   toolCalls |-> IF Len(chunk.tool_calls) > 0 THEN chunk.tool_calls
                 ELSE a.toolCalls]

\* executeToolCalls: a call without id gets a synthesized one
formattedCalls(calls, now) ==
  [i \in 1..Len(calls) |->
     Call(IF calls[i].id = "" THEN "call-" \o now ELSE calls[i].id,
          calls[i].name, calls[i].args)]

toolMessagesFirstOnly(calls, res) ==
  IF Len(calls) = 0 THEN <<>>
  ELSE <<ToolMessage(IF res[1].success THEN res[1].output
                     ELSE "Error: " \o res[1].error,
                     calls[1].id, calls[1].name)>>

toolMessagesRawError(calls, res) ==
  [i \in 1..Len(calls) |->
     ToolMessage(IF res[i].success THEN res[i].output ELSE res[i].error,
                 calls[i].id, calls[i].name)]

\* one tool-role message per call, from the streamed call and its result
toolMessages(calls, res) ==
  [i \in 1..Len(calls) |->
     ToolMessage(IF res[i].success THEN res[i].output
                 ELSE "Error: " \o res[i].error,
                 calls[i].id, calls[i].name)]

loopContinuesOffByOne(continueLoop, iteration) ==
  continueLoop /\ iteration <= maxIterations

\* the condition of the while loop
loopContinues(continueLoop, iteration) ==
  continueLoop /\ iteration < maxIterations

finishTurnFailsAtCap ==
  /\ warned' = (iterationCount >= maxIterations)
  /\ ret' = IF iterationCount >= maxIterations
            THEN Failure("Maximum iteration limit reached") ELSE Success
  /\ hpc' = "idle"

\* what follows the loop: the warning and the successful return
finishTurn ==
  /\ warned' = (iterationCount >= maxIterations)
  /\ ret' = Success
  /\ hpc' = "idle"

\* the model of the configuration, and the models the user can select
DefaultModel == "llama-3.3-70b-versatile"
Models       == {DefaultModel, "openai/gpt-oss-120b"}

\* a new ChatHandler: the history holds the system message
HandlerInit ==
  /\ messages = <<SystemMessage(SystemPrompt)>>
  /\ hpc = "idle"
  /\ input = ""
  /\ iterationCount = 0
  /\ toolCalls = <<>>
  /\ usage = [requestCount |-> 0]
  /\ ret = NoReturn
  /\ thrown = NoThrow
  /\ turnBase = <<>>
  /\ requests = 0
  /\ sizes = <<>>
  /\ warned = FALSE
  /\ turns = 0
  /\ stream = <<>>
  /\ acc = NoAcc
  /\ modelId = DefaultModel
  /\ sent = NoRequest

\* processUserInput up to the first streamChat
processUserInput(text) ==
  /\ UNCHANGED <<modelId, sent>>
  /\ hpc = "idle"
  /\ turns' = turns + 1
  /\ input' = text
  /\ turnBase' = messages
  /\ messages' = Append(messages, HumanMessage(text))
  /\ iterationCount' = 1
  /\ requests' = 1
  /\ sizes' = <<>>
  /\ warned' = FALSE
  /\ thrown' = NoThrow
  /\ ret' = NoReturn
  /\ toolCalls' = <<>>
  /\ hpc' = "streaming"
  /\ UNCHANGED <<usage, stream, acc, execVars>>

\* attachMentionedFiles throws before the user message is pushed
processUserInputContextFails(text, message) ==
  /\ UNCHANGED <<modelId, sent>>
  /\ hpc = "idle"
  /\ turns' = turns + 1
  /\ input' = text
  /\ turnBase' = messages
  /\ messages' = afterCatch(messages, message)
  /\ iterationCount' = 0
  /\ requests' = 0
  /\ sizes' = <<>>
  /\ warned' = FALSE
  /\ thrown' = [by |-> "context", message |-> message]
  /\ ret' = Failure(message)
  /\ toolCalls' = <<>>
  /\ hpc' = "idle"
  /\ UNCHANGED <<usage, stream, acc, execVars>>

\* modelProvider.streamChat: the stream whose chunks the provider delivers
streamChat(st) ==
  /\ hpc = "streaming"
  /\ ~acc.open
  /\ sent' = [model |-> modelId, messages |-> messages]
  /\ UNCHANGED modelId
  /\ stream' = st
  /\ acc' = [open |-> TRUE, fullResponse |-> "", toolCalls |-> <<>>]
  /\ UNCHANGED <<messages, hpc, input, iterationCount, toolCalls, usage, ret,
                 thrown, turnBase, requests, sizes, warned, turns, execVars>>

nextChunkStartsTools ==
  /\ UNCHANGED <<modelId, sent>>
  /\ hpc = "streaming"
  /\ acc.open
  /\ Len(stream) > 0
  /\ acc' = consume(Head(stream), acc)
  /\ stream' = Tail(stream)
  /\ IF Len(Head(stream).tool_calls) > 0
     THEN /\ StartBatch(Head(stream).tool_calls)
          /\ hpc' = "tools"
     ELSE UNCHANGED <<hpc, epc, batch, results, cur>>
  /\ UNCHANGED <<messages, input, iterationCount, toolCalls, usage, ret,
                 thrown, turnBase, requests, sizes, warned, turns,
                 tools, prefs, sessionOverrides, remembered, rounds>>

\* one round of the for-await loop: the next chunk arrives
nextChunk ==
  /\ UNCHANGED <<modelId, sent>>
  /\ hpc = "streaming"
  /\ acc.open
  /\ Len(stream) > 0
  /\ acc' = consume(Head(stream), acc)
  /\ stream' = Tail(stream)
  /\ UNCHANGED <<messages, hpc, input, iterationCount, toolCalls, usage, ret,
                 thrown, turnBase, requests, sizes, warned, turns, execVars>>

\* the stream ends: the rest of the iteration up to the next suspension
streamEnds(now) ==
  /\ sent' = NoRequest
  /\ UNCHANGED modelId
  /\ hpc = "streaming"
  /\ acc.open
  /\ Len(stream) = 0
  /\ usage' = [usage EXCEPT !.requestCount = @ + 1]
  /\ sizes' = Append(sizes, Len(acc.toolCalls))
  /\ toolCalls' = acc.toolCalls
  /\ acc' = NoAcc
  /\ IF Len(acc.toolCalls) > 0
     THEN /\ messages' = Append(messages, AIMessage(acc.fullResponse, acc.toolCalls))
          /\ StartBatch(formattedCalls(acc.toolCalls, now))
          /\ hpc' = "tools"
          /\ UNCHANGED <<ret, warned>>
     ELSE /\ messages' = Append(messages, AIMessage(acc.fullResponse, <<>>))
          /\ finishTurn
          /\ UNCHANGED <<epc, batch, results, cur>>
  /\ UNCHANGED <<input, iterationCount, thrown, turnBase, requests, turns,
                 stream, tools, prefs, sessionOverrides, remembered, rounds>>

\* streamChat or the consumption of its stream throws: the catch block
streamThrows(message) ==
  /\ sent' = NoRequest
  /\ UNCHANGED modelId
  /\ hpc = "streaming"
  /\ thrown' = [by |-> "provider", message |-> message]
  /\ messages' = afterCatch(messages, message)
  /\ ret' = Failure(message)
  /\ hpc' = "idle"
  /\ stream' = <<>>
  /\ acc' = NoAcc
  /\ UNCHANGED <<input, iterationCount, toolCalls, usage, turnBase, requests,
                 sizes, warned, turns, execVars>>

toolsDoneStopsOnFailure ==
  /\ UNCHANGED <<modelId, sent>>
  /\ hpc = "tools"
  /\ epc = "next"
  /\ Len(results) = Len(batch)
  /\ messages' = messages \o toolMessages(toolCalls, results)
  /\ epc' = "idle"
  /\ batch' = <<>>
  /\ results' = <<>>
  /\ cur' = Fresh(NoCall)
  /\ IF \E i \in 1..Len(results) : ~results[i].success
     THEN /\ ret' = Failure("tool failed")
          /\ hpc' = "idle"
          /\ UNCHANGED <<iterationCount, requests, warned>>
     ELSE IF loopContinues(TRUE, iterationCount)
          THEN /\ iterationCount' = iterationCount + 1
               /\ requests' = requests + 1
               /\ hpc' = "streaming"
               /\ UNCHANGED <<ret, warned>>
          ELSE /\ finishTurn
               /\ UNCHANGED <<iterationCount, requests>>
  /\ UNCHANGED <<input, toolCalls, usage, thrown, turnBase, sizes, turns,
                 stream, acc, tools, prefs, sessionOverrides, remembered, rounds>>

\* executeMultiple has returned: the tool messages, then the loop condition
toolsDone ==
  /\ UNCHANGED <<modelId, sent>>
  /\ hpc = "tools"
  /\ epc = "next"
  /\ Len(results) = Len(batch)
  /\ messages' = messages \o toolMessages(toolCalls, results)
  /\ epc' = "idle"
  /\ batch' = <<>>
  /\ results' = <<>>
  /\ cur' = Fresh(NoCall)
  /\ IF loopContinues(TRUE, iterationCount)
     THEN /\ iterationCount' = iterationCount + 1
          /\ requests' = requests + 1
          /\ hpc' = "streaming"
          /\ UNCHANGED <<ret, warned>>
     ELSE /\ finishTurn
          /\ UNCHANGED <<iterationCount, requests>>
  /\ UNCHANGED <<input, toolCalls, usage, thrown, turnBase, sizes, turns,
                 stream, acc, tools, prefs, sessionOverrides, remembered, rounds>>

\* this.messages[0]; undefined when the history is empty
Undefined == Msg("undefined", "", <<>>, "", "")

\* a model switch that restarts the conversation
setModelRestarts(id) ==
  /\ hpc = "idle"
  /\ modelId' = id
  /\ messages' = IF Len(messages) > 0 THEN <<messages[1]>> ELSE <<>>
  /\ UNCHANGED <<hpc, input, iterationCount, toolCalls, usage, ret,
                 thrown, turnBase, requests, sizes, warned, turns, stream, acc,
                 sent, execVars>>

\* GroqProvider.setModel and ChatHandler.updateModelProvider, between turns
setModel(id) ==
  /\ hpc = "idle"
  /\ modelId' = id
  /\ UNCHANGED <<messages, hpc, input, iterationCount, toolCalls, usage, ret,
                 thrown, turnBase, requests, sizes, warned, turns, stream, acc,
                 sent, execVars>>

systemMsgLast(list) == IF Len(list) > 0 THEN list[Len(list)] ELSE Undefined

systemMsg(list) == IF Len(list) > 0 THEN list[1] ELSE Undefined

clearHistory ==
  /\ UNCHANGED <<modelId, sent>>
  /\ hpc = "idle"
  /\ messages' = <<systemMsg(messages)>>
  /\ ret' = NoReturn
  /\ thrown' = NoThrow
  /\ UNCHANGED <<hpc, input, iterationCount, toolCalls, usage, turnBase,
                 requests, sizes, warned, turns, stream, acc, execVars>>

(***************************************************************************)
(* The session: one handler, the provider, the user and the tools          *)
(***************************************************************************)

MaxDepartures == 1

\* what the user types after the first turn
Inputs == {"hi", "fix a.txt"}

DefaultStream == <<ToolChunk(<<WriteCall>>)>>
FinalStream   == <<TextChunk("Done.")>>

\* the other streams the provider can deliver
OtherStreams ==
  { <<>>,
    <<TextChunk("Let me "), TextChunk("look."), ToolChunk(<<NoIdCall, WriteCall>>)>>,
    <<ToolChunk(<<ReadCall>>), ToolChunk(<<NopeCall, ReadCall>>), TextChunk("ok")>> }

\* the messages of the errors streamChat can throw
ProviderErrors ==
  {"429 Too Many Requests", "401 Unauthorized", "Request timeout", ""}

\* the messages of the errors getFileTree can reject with
ContextErrors == {"scandir timeout", "EACCES: permission denied"}

Clock == {"1700000000000"}

\* a step of the default environment, or a departure that uses the budget
Free(A)   == A /\ UNCHANGED <<safetyVars, budget, keyVars, regVars,
                attachVars, sideVars>>
Depart(A) ==
  /\ budget > 0 /\ budget' = budget - 1 /\ A
  /\ UNCHANGED <<safetyVars, keyVars, regVars,
                attachVars, sideVars>>

Init ==
  /\ SafetyIdle
  /\ SafetyExecIdle
  /\ HandlerInit
  /\ KeyIdle
  /\ SideIdle
  /\ RegIdle
  /\ AttachIdle
  /\ budget = MaxDepartures

Next ==
  \/ Free(turns = 0 /\ processUserInput("hi"))
  \/ \E text \in Inputs : Depart(turns > 0 /\ processUserInput(text))
  \/ \E m \in ContextErrors : Depart(processUserInputContextFails("hi", m))
  \/ Free(streamChat(DefaultStream))
  \/ Free(streamChat(FinalStream))
  \/ \E st \in OtherStreams : Depart(streamChat(st))
  \/ Free(nextChunk)
  \/ \E now \in Clock : Free(streamEnds(now))
  \/ \E m \in ProviderErrors : Depart(streamThrows(m))
  \/ Free(executeSingleBegin /\ UNCHANGED handlerVars)
  \/ Free(promptAnswered(TRUE, FALSE) /\ UNCHANGED handlerVars)
  \/ \E a \in PromptAnswers \ {<<TRUE, FALSE>>} :
       Depart(promptAnswered(a[1], a[2]) /\ UNCHANGED handlerVars)
  \/ \E m \in PromptErrors : Depart(promptThrows(m) /\ UNCHANGED handlerVars)
  \/ Free(toolReturns(success("done")) /\ UNCHANGED handlerVars)
  \/ Depart(toolReturns(error("failed")) /\ UNCHANGED handlerVars)
  \/ \E m \in ToolErrors : Depart(toolThrows(m) /\ UNCHANGED handlerVars)
  \/ Free(toolsDone)
  \/ Free(clearHistory)
  \/ \E id \in Models \ {modelId} : Depart(setModel(id))
  \/ Free(turns = 1 /\ modelId # DefaultModel /\ processUserInput("hi"))

Spec == Init /\ [][Next]_vars

(***************************************************************************)
(* Claims about the orchestration loop (Spec)                              *)
(***************************************************************************)

RECURSIVE Sum(_)
Sum(q) == IF Len(q) = 0 THEN 0 ELSE q[1] + Sum(Tail(q))

\* the messages the running or last turn has appended
Appended == SubSeq(messages, Len(turnBase) + 1, Len(messages))

\* C1: a turn issues at most 10 provider requests, whatever the provider
\* answers, and returns after the batch of the tenth; it appends at most
\* 1 message plus, per iteration, 1 plus the number of calls of the iteration.
C1_TurnIsBounded ==
  /\ [](/\ requests <= 10
        /\ Len(sizes) <= 10
        /\ Len(messages) <= Len(turnBase) + 1 + Len(sizes) + Sum(sizes))
  /\ [][(hpc = "tools" /\ requests = 10 /\ hpc' # "tools")
        => (hpc' = "idle" /\ ret'.returned)]_vars

C1_Witness ==
  /\ hpc = "idle"
  /\ ret.returned
  /\ requests = 10
  /\ Len(sizes) = 10
  /\ \A i \in 1..10 : sizes[i] > 0

RECURSIVE ExpectedRoles(_)
ExpectedRoles(sz) ==
  IF Len(sz) = 0 THEN <<>>
  ELSE <<"assistant">> \o [i \in 1..sz[1] |-> "tool"] \o ExpectedRoles(Tail(sz))

IsAssistant(m) == m.role = "assistant"

\* C2: a turn answered by k < 10 responses with calls and then one without
\* appends exactly the user message, per response with calls an assistant
\* message carrying them and one tool message per call, and the final
\* assistant message; the earlier messages are unchanged.
C2_ExactTranscript ==
  (/\ hpc = "idle" /\ ret.returned /\ ret.success
   /\ Len(sizes) > 0 /\ sizes[Len(sizes)] = 0)
  => /\ Len(messages) >= Len(turnBase)
     /\ SubSeq(messages, 1, Len(turnBase)) = turnBase
     /\ Len(Appended) > 0
     /\ Appended[1] = HumanMessage(input)
     /\ [i \in 1..Len(Appended) |-> Appended[i].role]
          = <<"user">> \o ExpectedRoles(sizes)
     /\ LET ai == SelectSeq(Appended, IsAssistant)
        IN  [i \in 1..Len(ai) |-> Len(ai[i].tool_calls)] = sizes

C2_Witness ==
  /\ hpc = "idle"
  /\ ret.returned
  /\ ret.success
  /\ sizes = <<1, 2, 0>>
  /\ Len(turnBase) > 0
  /\ Len(messages) = Len(turnBase) + 7

\* C3: when the provider call throws, the user message of the turn is no
\* longer in the history when processUserInput returns, whatever the failure
\* and whichever iteration it happens in.
C3_UserMessageRolledBack ==
  (hpc = "idle" /\ thrown.by = "provider")
    => \A i \in (Len(turnBase) + 1)..Len(messages) : messages[i].role # "user"

\* C4: a provider failure is returned, not raised: success=false, the error
\* text, an errorType among the four, and no message appended for the
\* failed request.
C4_ProviderFailureIsReturned ==
  [][(hpc = "streaming" /\ hpc' = "idle" /\ thrown'.by = "provider")
     => (/\ ret'.returned
         /\ ~ret'.success
         /\ ret'.error = (IF thrown'.message = "" THEN "Unknown error"
                          ELSE thrown'.message)
         /\ ret'.errorType \in {"rate_limit", "model_unavailable", "auth_error", "unknown"}
         /\ Len(messages') <= Len(messages)
         /\ messages' = SubSeq(messages, 1, Len(messages')))]_vars

C4_Witness ==
  /\ hpc = "idle"
  /\ thrown.by = "provider"
  /\ thrown.message = "Request timeout"
  /\ ret.error = "Request timeout"
  /\ ret.errorType = "unknown"
  /\ Len(sizes) > 0

\* C13: when a batch has been executed the loop appends exactly one
\* tool-role message per call, in call order, the i-th with the output of
\* result i when it succeeded and "Error: " and its error otherwise, and
\* with the name of call i; formatResultsAsMessages gives the same
\* sequence with the same tool_call_id at each position; and no other step
\* appends a tool-role message.
C13_OneToolMessagePerCall ==
  [][IF hpc = "tools" /\ hpc' # "tools"
     THEN LET added == SubSeq(messages', Len(messages) + 1, Len(messages'))
              fmt   == formatResultsAsMessages(toolCalls, results)
          IN  /\ SubSeq(messages', 1, Len(messages)) = messages
              /\ Len(added) = Len(toolCalls)
              /\ Len(fmt) = Len(toolCalls)
              /\ \A i \in 1..Len(toolCalls) :
                   /\ added[i].role = "tool"
                   /\ added[i].content =
                        (IF results[i].success THEN results[i].output
                         ELSE "Error: " \o results[i].error)
                   /\ added[i].name = toolCalls[i].name
                   /\ fmt[i].role = added[i].role
                   /\ fmt[i].content = added[i].content
                   /\ fmt[i].name = added[i].name
                   /\ fmt[i].tool_call_id = added[i].tool_call_id
     ELSE \A i \in (Len(messages) + 1)..Len(messages') :
            messages'[i].role # "tool"]_vars

C13_Witness ==
  /\ hpc = "streaming"
  /\ Len(messages) >= 5
  /\ toolCalls = <<NopeCall, ReadCall>>
  /\ messages[Len(messages) - 1] =
       ToolMessage("Error: Tool 'nope' not found", "call_n", "nope")
  /\ messages[Len(messages)] = ToolMessage("done", "call_r", "read_file")

(***************************************************************************)
(* Claims about the safety policy (SafetySpec)                             *)
(***************************************************************************)

\* C5: with safe mode on, shouldConfirm answers true for every destructive
\* tool, whatever its requiresConfirmation, its args and the auto-confirm
\* preference.
C5_SafeModeConfirmsDestructive ==
  (scResult.done /\ scPrefs.safeMode /\ scTool.destructive) => scResult.value

C5_Witness ==
  /\ scResult.done
  /\ scPrefs.safeMode
  /\ scPrefs.autoConfirm
  /\ scTool.destructive
  /\ ~scTool.requiresConfirmation
  /\ scResult.value

\* the drawn bash commands that match one of the catastrophic patterns
CatastrophicCommands ==
  {"rm -rf /", "rm  -rf build", "rm a/*", "echo x > /dev/null",
   "echo x >/dev/sda", "dd if=a of=b", "mkfs.ext4 d", "FORMAT c:"}

Catastrophic(tool, params) ==
  \/ tool.name = "git_push" /\ Get(params, "force") = Bool(TRUE)
  \/ tool.name = "git_branch" /\ Get(params, "action") = Str("delete")
  \/ tool.name = "bash" /\ Get(params, "command") \in {Str(c) : c \in CatastrophicCommands}

\* C6: with auto-confirm on and safe mode off, shouldConfirm answers true
\* exactly for a forced git_push, a git_branch delete and a bash command that
\* matches a catastrophic pattern; and under every preference combination it
\* answers true for these three.
C6_AutoConfirmKeepsCatastrophic ==
  scResult.done =>
    /\ (scPrefs.autoConfirm /\ ~scPrefs.safeMode) =>
         (scResult.value <=> Catastrophic(scTool, scParams))
    /\ Catastrophic(scTool, scParams) => scResult.value

C6_Witness ==
  /\ scResult.done
  /\ scPrefs.autoConfirm
  /\ ~scPrefs.safeMode
  /\ scTool.name = "bash"
  /\ Get(scParams, "command") = Str("FORMAT c:")
  /\ scResult.value

ReadOnlyNames ==
  {"read_file", "glob", "grep", "git_status", "git_diff", "git_log", "git_add",
   "manage_todos"}

\* C28: for the read-only tools of the catalog (read_file, glob, grep,
\* git_status, git_diff, git_log, git_add, manage_todos) shouldConfirm answers
\* false, whatever the args and the two preferences.
C28_ReadOnlyToolsNeverConfirm ==
  (scResult.done /\ scTool \in Catalog /\ scTool.name \in ReadOnlyNames)
    => ~scResult.value

C28_Witness ==
  /\ scResult.done
  /\ scTool = GitAddTool
  /\ scPrefs.safeMode
  /\ ~scPrefs.autoConfirm
  /\ Get(scParams, "force") = Bool(TRUE)
  /\ ~scResult.value

\* C29 as claimed: auto-confirm on and safe mode off gives
\* isExtremelyDangerous; otherwise safe mode on gives tool.destructive;
\* otherwise the result is tool.requiresConfirmation.
C29_SafeModeGivesDestructive ==
  scResult.done =>
    scResult.value =
      (IF scPrefs.autoConfirm /\ ~scPrefs.safeMode
       THEN Catastrophic(scTool, scParams)
       ELSE IF scPrefs.safeMode THEN scTool.destructive
       ELSE scTool.requiresConfirmation)

\* C29: auto-confirm on and safe mode off gives isExtremelyDangerous;
\* otherwise safe mode on with a destructive tool gives true; in every other
\* case, safe mode on with a non-destructive tool included, the result is
\* tool.requiresConfirmation.
C29_DecisionTable ==
  scResult.done =>
    /\ (scPrefs.autoConfirm /\ ~scPrefs.safeMode) =>
         (scResult.value <=> Catastrophic(scTool, scParams))
    /\ (scPrefs.safeMode /\ scTool.destructive) => scResult.value
    /\ (scPrefs.safeMode /\ ~scTool.destructive) =>
         (scResult.value <=> scTool.requiresConfirmation)
    /\ (~scPrefs.autoConfirm /\ ~scPrefs.safeMode) =>
         (scResult.value <=> scTool.requiresConfirmation)

C29_Witness ==
  /\ scResult.done
  /\ scPrefs.safeMode
  /\ scTool.requiresConfirmation
  /\ ~scTool.destructive
  /\ scResult.value

(***************************************************************************)
(* Claims about the executor (ExecSpec)                                    *)
(***************************************************************************)

CallOf(call) == [name |-> call.name, args |-> call.args]

\* C7: while safe mode is on, a destructive tool's execute is invoked only
\* after the user accepted the prompt of that call, or after an earlier call
\* with the identical tool name and args was accepted with "remember".
C7_DestructiveNeedsConsent ==
  (epc = "execute" /\ prefs.safeMode /\ get(tools, cur.call.name).destructive)
    => (cur.confirmed \/ CallOf(cur.call) \in remembered)

C7_Witness ==
  /\ epc = "execute"
  /\ prefs.safeMode
  /\ cur.call = DeployCall
  /\ ~cur.prompted
  /\ CallOf(cur.call) \in remembered

\* C8: an unregistered tool name gives the "not found" failure that names
\* the tool, without consulting shouldConfirm, prompting or executing, and
\* the session confirmation memory is left as it was.
C8_UnknownToolFailsUntouched ==
  [][(/\ epc = "next"
      /\ Len(results) < Len(batch)
      /\ Len(results') = Len(results) + 1
      /\ ~has(tools, batch[Len(results) + 1].name))
     => (/\ results' = Append(results,
             [success |-> FALSE, output |-> "", hasError |-> TRUE,
              error |-> "Tool '" \o batch[Len(results) + 1].name \o "' not found"])
         /\ ~cur'.consulted /\ ~cur'.prompted /\ ~cur'.executed
         /\ epc' = "next"
         /\ sessionOverrides' = sessionOverrides)]_vars

C8_Witness ==
  /\ epc = "next"
  /\ Len(results) = 2
  /\ batch[2] = NopeCall
  /\ ~results[2].success
  /\ sessionOverrides # {}

\* C9: a declined prompt gives the cancellation failure, the tool's execute
\* is not invoked, and the call's key is not in the session confirmation
\* memory afterwards.
C9_DeclineCancels ==
  [][(epc = "prompt" /\ cur'.declined)
     => (/\ results' = Append(results,
             [success |-> FALSE, output |-> "", hasError |-> TRUE,
              error |-> "Operation cancelled by user"])
         /\ ~cur'.executed
         /\ epc' = "next"
         /\ sessionOverrides' = sessionOverrides
         /\ overrideKey(cur.call) \notin sessionOverrides')]_vars

C9_Witness ==
  /\ epc = "next"
  /\ cur.declined
  /\ Len(results) = 2
  /\ batch[1] = batch[2]
  /\ results[1].error = "Operation cancelled by user"
  /\ results[2].error = "Operation cancelled by user"

\* C10: with auto-confirm off, a call whose tool and args were accepted with
\* "remember" by an earlier call runs without a prompt.
C10_RememberedSkipsPrompt ==
  (cur.resolved /\ cur.priorRemember /\ ~prefs.autoConfirm)
    => (~cur.prompted /\ cur.executed)

C10_Witness ==
  /\ cur.resolved
  /\ cur.priorRemember
  /\ ~prefs.autoConfirm
  /\ cur.call = BashLs
  /\ rounds = 2
  /\ Len(results) = 1
  /\ epc = "execute"

\* C12: executeMultiple handles the calls one after another in the given
\* order: the call being confirmed or executed is the first one without a
\* result, each step adds at most the result of that call after the earlier
\* results, a failed, cancelled or unknown call does not stop the batch, and
\* the list is returned only when it holds one result per call.
C12_SequentialInOrder ==
  /\ [](/\ Len(results) <= Len(batch)
        /\ (epc \in {"prompt", "execute"}
             => (Len(results) < Len(batch) /\ cur.call = batch[Len(results) + 1])))
  /\ [][/\ ((epc = "next" /\ Len(results) < Len(batch) /\ execVars' # execVars)
             => (batch' = batch /\ cur'.call = batch[Len(results) + 1]))
         /\ ((batch' = batch /\ results' # results)
             => (/\ Len(results') = Len(results) + 1
                 /\ SubSeq(results', 1, Len(results)) = results
                 /\ cur'.call = batch[Len(results')]))
         /\ ((epc = "next" /\ epc' = "idle") => Len(results) = Len(batch))]_vars

C12_Witness ==
  /\ epc = "next"
  /\ Len(batch) = 2
  /\ Len(results) = 2
  /\ batch[1] = BashLs
  /\ batch[2] = DeployCall
  /\ results[1] = Cancelled
  /\ results[2].success

\* C18: when the tenth response of a turn still carries tool calls, the
\* batch is executed and the turn returns success at once: the history keeps
\* the earlier messages, the user message, the ten assistant messages with
\* their calls and one tool message per call; the last message is a tool
\* message, no final assistant message follows, and the warning is emitted.
C18_CapKeepsPartialTranscript ==
  /\ []((/\ hpc = "idle" /\ ret.returned
          /\ Len(sizes) = maxIterations /\ sizes[maxIterations] > 0)
         => /\ ret = Success
            /\ warned
            /\ requests = maxIterations
            /\ \A i \in 1..maxIterations : sizes[i] > 0
            /\ SubSeq(messages, 1, Len(turnBase)) = turnBase
            /\ Appended[1] = HumanMessage(input)
            /\ [i \in 1..Len(Appended) |-> Appended[i].role]
                 = <<"user">> \o ExpectedRoles(sizes)
            /\ LET ai == SelectSeq(Appended, IsAssistant)
               IN  /\ Len(ai) = maxIterations
                   /\ \A i \in 1..Len(ai) : Len(ai[i].tool_calls) = sizes[i]
            /\ messages[Len(messages)].role = "tool")
  /\ [][(hpc = "tools" /\ Len(sizes) = maxIterations /\ hpc' # "tools")
         => /\ hpc' = "idle"
            /\ ret' = Success
            /\ Len(messages') = Len(messages) + sizes[maxIterations]
            /\ SubSeq(messages', 1, Len(messages)) = messages]_vars

C18_Witness ==
  /\ hpc = "idle"
  /\ ret = Success
  /\ warned
  /\ Len(sizes) = maxIterations
  /\ sizes[maxIterations] = 2
  /\ Len(messages) = Len(turnBase) + 1 + maxIterations + Sum(sizes)
  /\ messages[Len(messages)].role = "tool"
  /\ messages[Len(messages) - 2].role = "assistant"

\* C19: within an iteration, the executor starts (and with it every
\* confirmation prompt and every execute) only at the step that finds the
\* stream of the iteration drained, with the calls that stream delivered;
\* while a stream is open the executor is idle and does not move, and while
\* the executor works no stream is open.
C19_ToolsAfterStreamDrained ==
  /\ [](/\ (epc # "idle" => (hpc = "tools" /\ ~acc.open /\ Len(stream) = 0))
        /\ (acc.open => (hpc = "streaming" /\ epc = "idle"
                          /\ ~cur.prompted /\ ~cur.executed)))
  /\ [][/\ ((epc = "idle" /\ epc' # "idle")
              => (/\ hpc = "streaming" /\ acc.open /\ Len(stream) = 0
                  /\ toolCalls' = acc.toolCalls
                  /\ Len(batch') = Len(acc.toolCalls)
                  /\ \A i \in 1..Len(batch') :
                       /\ batch'[i].name = acc.toolCalls[i].name
                       /\ batch'[i].args = acc.toolCalls[i].args))
         /\ (acc'.open => UNCHANGED execVars)
         /\ ((cur'.prompted /\ ~cur.prompted) => (hpc = "tools" /\ ~acc.open))
         /\ ((cur'.executed /\ ~cur.executed) => (hpc = "tools" /\ ~acc.open))]_vars

C19_Witness ==
  /\ hpc = "tools"
  /\ epc = "execute"
  /\ ~acc.open
  /\ sizes = <<2>>
  /\ Len(results) = 1
  /\ batch[2].name = "read_file"
  /\ cur.call = batch[2]
  /\ messages[Len(messages)] = AIMessage("ok", <<NopeCall, ReadCall>>)

\* C21: a failed tool result (business failure, caught exception, unknown
\* tool, declined confirmation) neither ends the turn nor makes it fail: the
\* loop appends its "Error: ..." tool message and, below the iteration cap,
\* issues the next request, which carries that message; at the cap the
\* turn returns success.
C21_ToolFailureGoesBackToModel ==
  /\ []((acc.open /\ iterationCount > 1)
         => (/\ sent.messages = messages
             /\ messages[Len(messages)].role = "tool"))
  /\ [][/\ (hpc = "tools" => (thrown' = thrown /\ ~(ret'.returned /\ ~ret'.success)))
         /\ ((hpc = "tools" /\ hpc' # "tools")
              => (/\ Len(messages') = Len(messages) + Len(results)
                  /\ SubSeq(messages', 1, Len(messages)) = messages
                  /\ \A i \in 1..Len(results) :
                       ~results[i].success
                         => (/\ messages'[Len(messages) + i].role = "tool"
                             /\ messages'[Len(messages) + i].content
                                  = "Error: " \o results[i].error)
                  /\ IF iterationCount < maxIterations
                     THEN /\ hpc' = "streaming"
                          /\ requests' = requests + 1
                          /\ ~ret'.returned
                     ELSE ret' = Success))]_vars

C21_Witness ==
  /\ hpc = "streaming"
  /\ acc.open
  /\ iterationCount = 2
  /\ requests = 2
  /\ ~ret.returned
  /\ sent.messages[Len(sent.messages)]
       = ToolMessage("Error: Operation cancelled by user", "call_w", "write_file")

\* C16: after construction and after any sequence of processUserInput and
\* clearHistory calls, the history is non-empty, its first message is the
\* system message created at construction, and no other message has role
\* system.
C16_SystemMessageStaysFirst ==
  /\ Len(messages) >= 1
  /\ messages[1] = SystemMessage(SystemPrompt)
  /\ \A i \in 2..Len(messages) : messages[i].role # "system"

DeniedCommands ==
  {"rm -rf /", "sudo rm  -rf \t/var", "mkfs.ext4 /dev/sda1",
   "dd if=/dev/zero of=disk", "echo x > /dev/sda", "echo x >/dev/sdb",
   "chmod -R 777 .", "chown  -R me .", ":(){ :|:& };:"}

CommandOf(call) == ToStr(Get(call.args, "command"))

DeniedBash(call) == call.name = "bash" /\ CommandOf(call) \in DeniedCommands

\* C14: a bash call whose command matches a deny pattern never spawns a
\* process: a declined prompt cancels the call, and when execute runs
\* (after an accepted or a skipped prompt) it returns the "blocked" failure
\* without having spawned anything.
C14_DeniedBashNeverSpawns ==
  /\ [](DeniedBash(cur.call) => cur.effect = NoEffect)
  /\ [][DeniedBash(batch[1]) =>
          /\ (epc = "prompt" /\ cur'.declined)
               => (results' = <<Cancelled>> /\ ~cur'.executed)
          /\ (epc = "execute" /\ epc' = "next")
               => /\ results' =
                       <<[success |-> FALSE, output |-> "", hasError |-> TRUE,
                          error |-> "Dangerous command detected and blocked: \""
                                    \o CommandOf(batch[1])
                                    \o "\". This command could cause system damage. "
                                    \o "Please run it manually if you're certain."]>>
                  /\ cur'.effect = NoEffect]_vars

C14_Witness ==
  /\ epc = "next"
  /\ Len(results) = 1
  /\ CommandOf(batch[1]) = ":(){ :|:& };:"
  /\ cur.confirmed
  /\ cur.executed
  /\ ~results[1].success
  /\ results[1].error # "Operation cancelled by user"
  /\ cur.effect = NoEffect

\* C15: a git_push call with force set never invokes the underlying push
\* with --force towards main or master.
C15_NoForcePushToProtected ==
  (cur.call.name = "git_push" /\ Truthy(Get(cur.call.args, "force")))
    => ~(/\ cur.effect.op = "push"
         /\ cur.effect.target \in {"main", "master"}
         /\ \E i \in 1..Len(cur.effect.options) : cur.effect.options[i] = "--force")

\* C23: every result of executeSingle, on every path (unknown tool,
\* cancelled, tool success, tool failure, caught exception): a failure has
\* the empty output and carries an error; a success carries no error.
C23_ResultShape ==
  \A i \in 1..Len(results) :
    /\ (~results[i].success => (results[i].output = "" /\ results[i].hasError))
    /\ (results[i].success => (~results[i].hasError /\ results[i].error = ""))

C23_Witness ==
  /\ epc = "next"
  /\ Len(results) = 2
  /\ batch = <<BashRm, BashLs>>
  /\ ~results[1].success
  /\ results[1].error # "Operation cancelled by user"
  /\ cur.executed
  /\ results[2].success
  /\ results[2].output # ""

\* C20: when the confirmation prompt or a tool's execute throws,
\* executeSingle returns the failure result that carries the exception's
\* message (the generic text when the exception has none); the batch goes on
\* with the next call, or executeMultiple returns the full list.
C20_ThrowBecomesFailureResult ==
  /\ [](cur.caught.thrown =>
          /\ epc = "next"
          /\ Len(results) > 0
          /\ Len(results) <= Len(batch)
          /\ batch[Len(results)] = cur.call
          /\ ~results[Len(results)].success
          /\ results[Len(results)].output = ""
          /\ results[Len(results)].error =
               (IF cur.caught.message = "" THEN "Unknown error occurred"
                ELSE cur.caught.message))
  /\ [][(cur.caught.thrown /\ execVars' # execVars) =>
          IF Len(results) < Len(batch)
          THEN /\ cur'.call = batch[Len(results) + 1]
               /\ batch' = batch
               /\ Len(results') >= Len(results)
               /\ SubSeq(results', 1, Len(results)) = results
          ELSE epc' = "idle"]_vars

C20_Witness ==
  /\ epc = "next"
  /\ Len(batch) = 2
  /\ Len(results) = 2
  /\ batch[1] = BashLs
  /\ results[1].error = "spawn ENOMEM"
  /\ cur.call = batch[2]
  /\ cur.executed
  /\ results[2].success

\* an argument map satisfies a schema: every required field is present and
\* every present field has the type the schema gives it
Satisfies(args, sch) ==
  \A i \in 1..Len(sch) :
    LET v == Get(args, sch[i][1])
    IN  IF v = Undef THEN ~sch[i][3] ELSE v.t = sch[i][2]

SchemaOf(name) ==
  CASE name = "bash"       -> BashSchema
    [] name = "git_commit" -> GitCommitSchema
    [] OTHER               -> GitPushSchema

\* C22: execute is never invoked with arguments that do not satisfy the
\* schema of the resolved tool.
C22_ExecuteOnlyValidArgs ==
  (epc = "next" /\ cur.resolved /\ cur.executed /\ Len(results) = 1)
    => Satisfies(cur.call.args, SchemaOf(cur.call.name))

(***************************************************************************)
(* Claims about auto-attachment (AttachSpec)                               *)
(***************************************************************************)

\* the last segment of a path, read off the drawn paths
LastSegment(path) ==
  CASE path = "src/utils.ts"     -> "utils.ts"
    [] path = "utils.ts"         -> "utils.ts"
    [] path = "src/ab"           -> "ab"
    [] path = "pkg/__init__.py"  -> "__init__.py"
    [] path = "docs/utils.ts.md" -> "utils.ts.md"

Mentioned(text, path) ==
  \/ includes(text, path)
  \/ Len(LastSegment(path)) > 2 /\ includes(text, LastSegment(path))

\* C26: auto-attachment reports exactly the paths of the file tree whose
\* basename (longer than 2) or whose full path is a substring of the input,
\* each exactly once.
C26_AttachesExactlyTheMentioned ==
  atResult.done =>
    /\ \A i \in 1..Len(atTree) :
         Mentioned(atInput, atTree[i].path)
           <=> (\E k \in 1..Len(atResult.attached) :
                  atResult.attached[k] = atTree[i].path)
    /\ \A k \in 1..Len(atResult.attached) :
         /\ \E i \in 1..Len(atTree) : atTree[i].path = atResult.attached[k]
         /\ \A j \in 1..Len(atResult.attached) :
              atResult.attached[j] = atResult.attached[k] => j = k

(***************************************************************************)
(* Claims about the chat session, continued (Spec)                         *)
(***************************************************************************)

\* C27: a model switch happens between turns and leaves the message history,
\* the usage counters and the session confirmation memory unchanged; every
\* request issued afterwards carries the whole history of that moment to the
\* model selected last.
C27_ModelSwitchKeepsSession ==
  [][ /\ (modelId' # modelId) =>
           /\ hpc = "idle" /\ hpc' = "idle"
           /\ messages' = messages
           /\ usage' = usage
           /\ sessionOverrides' = sessionOverrides
           /\ remembered' = remembered
           /\ turns' = turns
      /\ (~acc.open /\ acc'.open) =>
           sent' = [model |-> modelId, messages |-> messages]
    ]_vars

C27_Witness ==
  /\ turns = 2
  /\ hpc = "streaming"
  /\ acc.open
  /\ modelId = "openai/gpt-oss-120b"
  /\ sent.model = "openai/gpt-oss-120b"
  /\ sent.messages = messages
  /\ Len(sent.messages) > 4
  /\ sent.messages[2].role = "user"
  /\ sent.messages[Len(sent.messages)].role = "user"
  /\ usage.requestCount > 0

\* C30: a successful turn emits the maximum-iteration warning exactly when
\* it was stopped by the cap, that is when its last response still requested
\* tools; a turn that ends with a final assistant message emits none.
C30_WarningExactlyWhenCapped ==
  [][(hpc # "idle" /\ hpc' = "idle" /\ ret'.returned /\ ret'.success)
       => (warned' <=> hpc = "tools")]_vars

(***************************************************************************)
(* Claims about the executor, continued (ExecSpec)                         *)
(***************************************************************************)

RememberedKeys == {overrideKey(c) : c \in remembered}

\* C31: the session memory holds exactly the keys of the calls accepted with
\* "remember" since the executor was created or last cleared; a key is added
\* only by an accepted prompt of that very call answered with "remember",
\* no other step of the executor adds or removes one, and only
\* clearSessionOverrides empties the memory; a prompt is skipped only for a
\* call whose own key is in the memory, so a remembered call does not exempt
\* a call of the same tool with other args.
C31_MemoryIsTheRememberedCalls ==
  /\ [](/\ sessionOverrides = RememberedKeys
        /\ (epc = "execute" /\ cur.needsConfirm /\ ~cur.prompted)
             => (/\ overrideKey(cur.call) \in sessionOverrides
                 /\ CallOf(cur.call) \in remembered)
        /\ ((epc \in {"prompt", "execute"}) /\ cur.needsConfirm /\
            (CallOf(cur.call) \notin remembered) /\ ~cur.confirmed)
             => (cur.prompted /\ epc = "prompt"))
  /\ [][/\ (sessionOverrides' # sessionOverrides /\ sessionOverrides' # {})
            => (/\ epc = "prompt" /\ epc' = "execute"
                /\ cur'.confirmed
                /\ sessionOverrides' = sessionOverrides \cup {overrideKey(cur.call)})
        /\ (sessionOverrides' # sessionOverrides /\ sessionOverrides' = {})
            => (/\ epc = "idle" /\ epc' = "idle"
                /\ UNCHANGED <<tools, prefs, batch, results, cur, rounds>>)
        /\ (epc # "idle" /\ epc # "prompt")
            => sessionOverrides' = sessionOverrides
        ]_vars

C31_Witness ==
  /\ rounds = 2
  /\ epc = "prompt"
  /\ cur.call = BashLs
  /\ cur.prompted
  /\ sessionOverrides = {overrideKey(BashRm)}
  /\ Len(results) = 1
  /\ batch[1] = BashRm
  /\ CallOf(BashRm) \in remembered

\* C32: every tool-role message the loop appends carries a defined
\* tool_call_id, equal to the id of the call handed to the executor at that
\* position (the model's id, or the synthesized one when the model gave
\* none) and to the id of that call in the preceding assistant message.
C32_ToolMessageCarriesExecutorId ==
  [][(hpc = "tools" /\ hpc' # "tools")
       => LET added == SubSeq(messages', Len(messages) + 1, Len(messages'))
              ai    == messages[Len(messages)]
          IN  /\ Len(added) = Len(batch)
              /\ \A i \in 1..Len(added) :
                   /\ added[i].tool_call_id # ""
                   /\ added[i].tool_call_id = batch[i].id
                   /\ added[i].tool_call_id = ai.tool_calls[i].id]_vars

(***************************************************************************)
(* Claims about the tools, continued (ToolSpec)                            *)
(***************************************************************************)

\* C33: a bash call that spawns a process runs it under a timeout that is
\* positive and at most 600000 ms: the requested one when it is a positive
\* number within the maximum, 120000 when none (or 0) is requested or the
\* requested one exceeds the maximum; and the expiry of the timeout is a
\* returned result with success = false, not an exception.
C33_BashTimeoutIsCapped ==
  (cur.call.name = "bash" /\ cur.effect.op = "exec") =>
    LET t == Get(cur.call.args, "timeout")
    IN  /\ cur.effect.timeout > 0
        /\ cur.effect.timeout <= 600000
        /\ (t.t = "num" /\ t.n > 0 /\ t.n <= 600000) => cur.effect.timeout = t.n
        /\ (t = Undef \/ (t.t = "num" /\ (t.n = 0 \/ t.n > 600000)))
             => cur.effect.timeout = 120000
        /\ (Len(results) = 1 /\ includes(results[1].error, "Command timed out after"))
             => (/\ ~results[1].success
                 /\ results[1].output = ""
                 /\ cur.caught = NotCaught)

C33_Witness ==
  /\ epc = "next"
  /\ Len(results) = 1
  /\ Get(cur.call.args, "timeout") = Num(600001)
  /\ cur.effect = Exec("sleep 700", 120000)
  /\ ~results[1].success
  /\ includes(results[1].error, "Command timed out after")

\* C34: when git_commit staged the given files and the commit then failed,
\* the failure result reports the staging: its error or its output says
\* that files were staged or names each staged file (Tool.error carries no
\* metadata).
C34_FailedCommitReportsStaging ==
  (/\ cur.call.name = "git_commit"
   /\ Len(results) = 1
   /\ ~results[1].success
   /\ cur.effect.op = "add")
    => LET text == results[1].error \o results[1].output
       IN  \/ includes(text, "staged")
           \/ \A i \in 1..Len(cur.effect.options) :
                includes(text, cur.effect.options[i])

\* every assistant message with tool calls is followed by one tool message
\* per call, in call order, and every tool message belongs to such a group
C37_WellFormed(h) ==
  \A i \in 1..Len(h) :
    /\ (h[i].role = "assistant" /\ Len(h[i].tool_calls) > 0)
         => LET n == Len(h[i].tool_calls)
            IN  /\ i + n <= Len(h)
                /\ \A k \in 1..n : /\ h[i + k].role = "tool"
                                   /\ h[i + k].name = h[i].tool_calls[k].name
                /\ i + n + 1 <= Len(h) => h[i + n + 1].role # "tool"
    /\ h[i].role = "tool"
         => \E j \in 1..(i - 1) :
              /\ h[j].role = "assistant"
              /\ i - j <= Len(h[j].tool_calls)
              /\ \A k \in (j + 1)..i : h[k].role = "tool"

\* C37: whenever processUserInput has returned (success, cap reached or
\* failure), every assistant message that carries tool calls is immediately
\* followed by exactly one tool message per call, in call order, and every
\* tool message belongs to such a group.
C37_HistoryWellFormedAtReturn ==
  (hpc = "idle" /\ ret.returned) => C37_WellFormed(messages)

\* the text holds one of the patterns
C38_HasAny(text, patterns) ==
  \E p \in patterns : includes(toLowerCase(text), p)

C38_RateLimit   == {"rate limit", "rate_limit", "too many requests", "429"}
C38_Unavailable == {"model not found", "not available", "overloaded", "503",
                    "502"}
C38_Auth        == {"auth", "api key", "unauthorized", "401"}

\* C38: the two failure fields agree: isModelError is true whenever errorType
\* is rate_limit, model_unavailable or auth_error, and errorType is chosen
\* with the precedence rate_limit, model_unavailable, auth_error, unknown.
C38_FailureFieldsAgree ==
  (hpc = "idle" /\ ret.returned /\ ~ret.success) =>
    /\ ret.errorType \in {"rate_limit", "model_unavailable", "auth_error"}
         => ret.isModelError
    /\ ret.errorType =
         (IF C38_HasAny(ret.error, C38_RateLimit) THEN "rate_limit"
          ELSE IF C38_HasAny(ret.error, C38_Unavailable) THEN "model_unavailable"
          ELSE IF C38_HasAny(ret.error, C38_Auth) THEN "auth_error"
          ELSE "unknown")

(***************************************************************************)
(* Claims about the todo list (TodoSpec)                                   *)
(***************************************************************************)

\* the first position of the list whose id or content is the given item's
C35_FirstMatch(list, u) ==
  IF \E i \in 1..Len(list) : list[i].id = u.id \/ list[i].content = u.content
  THEN CHOOSE i \in 1..Len(list) :
         /\ list[i].id = u.id \/ list[i].content = u.content
         /\ \A j \in 1..(i - 1) :
              list[j].id # u.id /\ list[j].content # u.content
  ELSE 0

\* the positions the given items select one after the other; an update
\* rewrites the content of the position it selects before the next one looks
RECURSIVE C35_Selected(_, _, _)
C35_Selected(list, given, rewrites) ==
  IF given = <<>> THEN {}
  ELSE LET f == C35_FirstMatch(list, given[1])
       IN  (IF f = 0 THEN {} ELSE {f})
           \cup C35_Selected(
                  IF f # 0 /\ rewrites
                  THEN [list EXCEPT ![f].content = given[1].content]
                  ELSE list,
                  Tail(given), rewrites)

\* C35: create appends the given items in order after the existing ones;
\* update and complete keep the length, the order and the ids of the list and
\* change only the first item matching each given id or content; list changes
\* nothing; clear leaves the list empty; a create, update or complete with no
\* items fails and changes nothing.
C35_TodoListChangesOnlyAsStated ==
  [][LET p    == tdCall'
         n    == Len(p.todos)
         none == ~p.given \/ n = 0
     IN  /\ (p.action \in {"create", "update", "complete"} /\ none)
              => (todos' = todos /\ ~tdResult'.success)
         /\ (p.action = "create" /\ ~none)
              => /\ tdResult'.success
                 /\ Len(todos') = Len(todos) + n
                 /\ SubSeq(todos', 1, Len(todos)) = todos
                 /\ \A i \in 1..n :
                      /\ todos'[Len(todos) + i].content = p.todos[i].content
                      /\ todos'[Len(todos) + i].status = p.todos[i].status
                      /\ p.todos[i].id # ""
                           => todos'[Len(todos) + i].id = p.todos[i].id
         /\ (p.action \in {"update", "complete"} /\ ~none)
              => /\ tdResult'.success
                 /\ Len(todos') = Len(todos)
                 /\ \A i \in 1..Len(todos) :
                      /\ todos'[i].id = todos[i].id
                      /\ todos'[i].createdAt = todos[i].createdAt
                      /\ i \notin C35_Selected(todos, p.todos,
                                               p.action = "update")
                           => todos'[i] = todos[i]
                      /\ (p.action = "complete" /\ todos'[i] # todos[i])
                           => todos'[i] = [todos[i] EXCEPT
                                             !.status = "completed"]
         /\ p.action = "list" => (todos' = todos /\ tdResult'.success)
         /\ p.action = "clear" => (todos' = <<>> /\ tdResult'.success)
    ]_vars

\* an update by content has rewritten the first of two items with that
\* content and left the second one alone
C35_Witness ==
  /\ tdCall.action = "update"
  /\ tdCall.todos = <<Given("", "A", "in_progress")>>
  /\ tdResult.success
  /\ Len(todos) = 2
  /\ todos[1].content = "A" /\ todos[1].status = "in_progress"
  /\ todos[2].content = "A" /\ todos[2].status = "pending"

(***************************************************************************)
(* Claims about edit_file (EditSpec)                                       *)
(***************************************************************************)

\* the number of places of the content where the search text starts
C36_Places(content, search) ==
  {i \in 1..(Len(content) - Len(search) + 1) :
     SubSeq(content, i, i + Len(search) - 1) = search}

\* C36: on a file system that works, edit_file fails exactly when the file is
\* missing or the search text does not occur in it, and then the content is
\* unchanged; when the search text occurs the call succeeds.
C36_FailsExactlyWhenMissingOrNotFound ==
  [][(~edResult.done /\ edResult'.done /\ edFile.error = "")
       => /\ ~edResult'.success
               <=> (~edFile.exists
                    \/ C36_Places(edFile.content, edParams.search) = {})
          /\ ~edResult'.success => edFile' = edFile
    ]_vars

(***************************************************************************)
(* Claims about the interactive session (CliSpec)                          *)
(***************************************************************************)

\* C39: after any sequence of model switches and API-key updates, the model
\* the provider uses for the next request is the model last selected by the
\* user (the persisted active model), and an API-key update never changes
\* which model is active.
C39_ProviderUsesSelectedModel ==
  /\ [](prModelId = activeModel /\ prModel = activeModel)
  /\ [][(prApiKey' # prApiKey \/ cliSteps' # cliSteps)
          => (activeModel' # activeModel
              \/ (prModelId' = prModelId /\ prModel' = prModel))]_vars

(***************************************************************************)
(* Claims about the registry (RegistrySpec)                                *)
(***************************************************************************)

RegisteredNames == {registered[i].name : i \in 1..Len(registered)}

\* the last tool handed to register under a name
LastRegistered(name) ==
  registered[CHOOSE i \in 1..Len(registered) :
               /\ registered[i].name = name
               /\ \A j \in (i + 1)..Len(registered) : registered[j].name # name]

\* C24: after any sequence of register calls, get(t.name) is t itself for
\* every tool t of getAll(), and get(name) is absent for every name that
\* was never registered.
C24_RegistryRoundTrips ==
  /\ \A i \in 1..Len(getAll(tools)) :
       /\ has(tools, getAll(tools)[i].name)
       /\ get(tools, getAll(tools)[i].name) = getAll(tools)[i]
       /\ \A j \in 1..Len(getAll(tools)) :
            getAll(tools)[j].name = getAll(tools)[i].name => j = i
  /\ \A name \in {"read_file", "bash", "git_status", "nope"} \ RegisteredNames :
       ~has(tools, name)

C24_Witness ==
  /\ Len(registered) = 4
  /\ registered[1].inst = 3
  /\ registered[2].inst = 1
  /\ registered[3].inst = 4
  /\ registered[4].inst = 2
  /\ Len(getAll(tools)) = 2
  /\ get(tools, "bash").inst = 4
  /\ get(tools, "read_file").inst = 2
  /\ ~has(tools, "git_status")

\* the registered names, each once, in the order of their first registration
RECURSIVE FirstNames(_)
FirstNames(log) ==
  IF Len(log) = 0 THEN <<>>
  ELSE LET before == FirstNames(SubSeq(log, 1, Len(log) - 1))
           name   == log[Len(log)].name
       IN  IF \E i \in 1..Len(before) : before[i] = name THEN before
           ELSE Append(before, name)

ManifestLine(tool) ==
  "- " \o tool.name \o "(" \o join(tool.shape, ", ") \o "): " \o tool.description

\* C25: register overwrites by name: count() is the number of distinct
\* registered names, the tool held for a name is the last one registered
\* under it, and the manifest has exactly one line per registered name,
\* which lists the schema keys of that last tool.
C25_RegisterOverwritesByName ==
  /\ count(tools) = Cardinality(RegisteredNames)
  /\ \A name \in RegisteredNames :
       /\ has(tools, name)
       /\ get(tools, name) = LastRegistered(name)
  /\ getToolDescriptions(tools)
       = join([i \in 1..Len(FirstNames(registered)) |->
                 ManifestLine(LastRegistered(FirstNames(registered)[i]))], "\n")

C25_Witness ==
  /\ Len(registered) = 4
  /\ registered[1].inst = 3
  /\ registered[2].inst = 5
  /\ registered[3].inst = 4
  /\ registered[4].inst = 5
  /\ count(tools) = 2
  /\ getToolDescriptions(tools)
       = "- bash(cmd): Run a command\n- git_status(): Get git status"

(***************************************************************************)
(* Claims about the confirmation-memory key (KeySpec)                      *)
(***************************************************************************)

\* the same entries, whatever their order (keys are distinct in a map)
StructEq(a, b) ==
  {a[i] : i \in 1..Len(a)} = {b[i] : i \in 1..Len(b)}

\* C11: two calls of the same tool whose argument maps are structurally
\* equal have the same confirmation-memory key, whatever the insertion
\* order of the entries.
C11_KeyIgnoresInsertionOrder ==
  (kcKeys.done /\ kcA.name = kcB.name /\ StructEq(kcA.args, kcB.args))
    => kcKeys.a = kcKeys.b

====
